---- MODULE Spec2Model ----
(***************************************************************************)
(* A model of doctool: the job validator (job_parser.py), the conversion   *)
(* manager (core/converter.py), the PDF combiner's ordering                *)
(* (converters/pdf_combiner.py) and the command-line entry point           *)
(* (doctool.py).                                                           *)
(*                                                                         *)
(* Python values are modelled as follows.  A dict is a function whose      *)
(* domain is its set of keys.  A str is a string.  True and False are the  *)
(* tokens PyTrue and PyFalse.  None is PyNone.  Where the code tests the   *)
(* type of a value (isinstance), a list is the record [pylist |-> <<..>>]  *)
(* and a value of another type is the record [pystr |-> "..."].            *)
(***************************************************************************)
EXTENDS Integers, Sequences, FiniteSets, TLC

VARIABLES
    fs,            \* the file system: the set of paths that exist
    content,       \* the decoded content of each job file in the file system
    job_data,      \* ConversionManager.job_data
    input_files,   \* ConversionManager.input_files
    output_files,  \* ConversionManager.output_files
    call           \* the last operation: its name, inputs, outcome and trace

vars == <<fs, content, job_data, input_files, output_files, call>>

----------------------------------------------------------------------------
(* Python values *)

PyNone == [pynone |-> "None"]
PyTrue == "True"
PyFalse == "False"
EmptyDict == [k \in {} |-> ""]

IsBool(v) == v \in {PyTrue, PyFalse}
IsList(v) == "pylist" \in DOMAIN v
IsDict(v) == "pystr" \notin DOMAIN v /\ "pylist" \notin DOMAIN v /\ "pynone" \notin DOMAIN v
\* "not x" for a dict or None
Falsy(v) == v = PyNone \/ DOMAIN v = {}
\* truth value of a bool or str
Truthy(v) == v # PyFalse /\ v # ""

Range(s) == {s[i] : i \in DOMAIN s}

\* An operation's outcome: a return value, or an exception with its message,
\* and the warnings it printed on the way.
Return(v) == [raised |-> "", msg |-> "", ret |-> v, warnings |-> <<>>]
Raise(exc, m) == [raised |-> exc, msg |-> m, ret |-> PyNone, warnings |-> <<>>]
\* the outcome r of a step that follows the printing of the warnings w
Warn(w, r) == [r EXCEPT !.warnings = w \o @]
Ok(r) == r.raised = ""

----------------------------------------------------------------------------
(* Strings *)

UpperChars == "ABCDEFGHIJKLMNOPQRSTUVWXYZ"
LowerChars == "abcdefghijklmnopqrstuvwxyz"
\* the characters that occur in the model's strings, in code-point order
CodePoints == " ',-./0123456789:ABCDEFGHIJKLMNOPQRSTUVWXYZ[]_abcdefghijklmnopqrstuvwxyz"

Char(s, i) == SubSeq(s, i, i)

RECURSIVE IndexIn(_, _, _)
\* the position of character c in s at or after i, or 0
IndexIn(c, s, i) ==
    IF i > Len(s) THEN 0
    ELSE IF Char(s, i) = c THEN i
    ELSE IndexIn(c, s, i + 1)

CharsOf(s) == {Char(s, i) : i \in 1..Len(s)}

\* ord(c), as the position of c among the model's characters
OrdOf == [c \in CharsOf(CodePoints) |-> IndexIn(c, CodePoints, 1)]
Ord(c) == OrdOf[c]

LowerOf == [c \in CharsOf(UpperChars) |-> Char(LowerChars, IndexIn(c, UpperChars, 1))]
LowerChar(c) == IF c \in DOMAIN LowerOf THEN LowerOf[c] ELSE c

RECURSIVE Lower(_)
\* str.lower()
Lower(s) == IF s = "" THEN "" ELSE LowerChar(Char(s, 1)) \o Lower(SubSeq(s, 2, Len(s)))

\* str.endswith(suffix)
EndsWith(s, suffix) ==
    /\ Len(s) >= Len(suffix)
    /\ SubSeq(s, Len(s) - Len(suffix) + 1, Len(s)) = suffix

StartsWith(s, prefix) ==
    /\ Len(s) >= Len(prefix)
    /\ SubSeq(s, 1, Len(prefix)) = prefix

RECURSIVE StrLess(_, _)
\* a < b for str: lexicographic by code point
StrLess(a, b) ==
    IF b = "" THEN FALSE
    ELSE IF a = "" THEN TRUE
    ELSE IF Char(a, 1) = Char(b, 1) THEN StrLess(SubSeq(a, 2, Len(a)), SubSeq(b, 2, Len(b)))
    ELSE Ord(Char(a, 1)) < Ord(Char(b, 1))

RECURSIVE InsertSorted(_, _)
InsertSorted(x, s) ==
    IF s = <<>> THEN <<x>>
    ELSE IF StrLess(x, Head(s)) THEN <<x>> \o s
    ELSE <<Head(s)>> \o InsertSorted(x, Tail(s))

RECURSIVE sorted(_)
\* list.sort() on a list of str
sorted(s) == IF s = <<>> THEN <<>> ELSE InsertSorted(s[Len(s)], sorted(SubSeq(s, 1, Len(s) - 1)))

RECURSIVE JoinStr(_, _)
\* sep.join(list)
JoinStr(sep, s) ==
    IF s = <<>> THEN ""
    ELSE IF Len(s) = 1 THEN s[1]
    ELSE s[1] \o sep \o JoinStr(sep, Tail(s))

RECURSIVE Perms(_)
\* The sequences that list every element of the set S once, in any order.
Perms(S) ==
    IF S = {} THEN {<<>>}
    ELSE UNION {{<<x>> \o p : p \in Perms(S \ {x})} : x \in S}

----------------------------------------------------------------------------
(* Paths *)

RECURSIVE LastSlash(_, _)
\* the position of the last "/" of p at or before i, or 0
LastSlash(p, i) ==
    IF i = 0 THEN 0
    ELSE IF Char(p, i) = "/" THEN i
    ELSE LastSlash(p, i - 1)

\* os.path.basename, os.path.dirname
basename(p) == SubSeq(p, LastSlash(p, Len(p)) + 1, Len(p))
dirname(p) ==
    LET k == LastSlash(p, Len(p))
    IN  IF k <= 1 THEN SubSeq(p, 1, k) ELSE SubSeq(p, 1, k - 1)

\* os.path.join(a, b)
join(a, b) ==
    IF StartsWith(b, "/") THEN b
    ELSE IF a = "" \/ EndsWith(a, "/") THEN a \o b
    ELSE a \o "/" \o b

RECURSIVE LastDot(_, _)
\* the position of the last "." of name at or before i, or 0
LastDot(name, i) ==
    IF i = 0 THEN 0
    ELSE IF Char(name, i) = "." THEN i
    ELSE LastDot(name, i - 1)

\* os.path.splitext(p)[1]: from the last dot of the base name, unless that dot
\* starts the name
splitext1(p) ==
    LET name == basename(p)
        k == LastDot(name, Len(name))
    IN  IF k <= 1 THEN "" ELSE SubSeq(name, k, Len(name))

\* Paths are relative to the current directory: "./x", "x" and "x/" name the
\* same entry.
NormPath(p) ==
    LET q == IF StartsWith(p, "./") /\ Len(p) > 2 THEN SubSeq(p, 3, Len(p)) ELSE p
    IN  IF Len(q) > 1 /\ EndsWith(q, "/") THEN SubSeq(q, 1, Len(q) - 1) ELSE q

\* os.path.exists(p)
exists(files, p) == NormPath(p) \in files

\* The order in which the operating system enumerates directory entries is
\* arbitrary.  scan is a list of the entries of the file system whose names
\* have an extension, in that order; the operations that list a directory
\* take it as an input.  These entries are the regular files, and a
\* directory where a file system has one with such a name (it is then given
\* with an entry below it).
RegularFiles(files) == {p \in files : splitext1(p) # ""}
ScanOrders(files) == Perms(RegularFiles(files))

\* glob.glob(os.path.join(dir, "*" + ext)): the entries of dir whose name ends
\* with ext and does not start with a dot, in scan order
glob(files, scan, dir, ext) ==
    SelectSeq(scan, LAMBDA p :
        LET name == basename(p)
        IN  /\ p \in files
            /\ NormPath(join(dir, name)) = p
            /\ EndsWith(name, ext)
            /\ ~StartsWith(name, "."))

\* the paths glob returns are the pattern's directory joined with the names
GlobPaths(files, scan, dir, ext) ==
    LET g == glob(files, scan, dir, ext)
    IN  [i \in 1..Len(g) |-> join(dir, basename(g[i]))]

\* os.listdir(dir), restricted to the entries whose names have an extension,
\* in scan order
listdir(files, scan, dir) ==
    LET g == SelectSeq(scan, LAMBDA p : p \in files /\ NormPath(join(dir, basename(p))) = p)
    IN  [i \in 1..Len(g) |-> basename(g[i])]

----------------------------------------------------------------------------
(* core/converter.py: ConversionManager._determine_conversion_path *)

direct_paths ==
    [p \in { <<"markdown", "html">>, <<"markdown", "pdf">>, <<"markdown", "odt">>,
             <<"html", "markdown">>, <<"html", "pdf">>, <<"html", "odt">>,
             <<"pdf", "html">>, <<"pdf", "markdown">>, <<"pdf", "odt">>,
             <<"odt", "html">>, <<"odt", "markdown">>, <<"odt", "pdf">> } |->
        CASE p = <<"markdown", "pdf">> -> <<"markdown", "html", "pdf">>
          [] p = <<"pdf", "markdown">> -> <<"pdf", "html", "markdown">>
          [] p = <<"odt", "markdown">> -> <<"odt", "html", "markdown">>
          [] OTHER -> p]

\* a variant that takes every pair of the table to be directly convertible
_determine_conversion_path_direct(input_format, output_format) ==
    IF <<input_format, output_format>> \notin DOMAIN direct_paths
    THEN Raise("ValueError", "No conversion path available from " \o input_format
                              \o " to " \o output_format)
    ELSE Return(<<input_format, output_format>>)

_determine_conversion_path(input_format, output_format) ==
    IF <<input_format, output_format>> \notin DOMAIN direct_paths
    THEN Raise("ValueError", "No conversion path available from " \o input_format
                              \o " to " \o output_format)
    ELSE Return(direct_paths[<<input_format, output_format>>])

----------------------------------------------------------------------------
(* job/job_parser.py: JobParser *)

\* a variant that also admits docx
valid_formats_docx == <<"markdown", "md", "html", "pdf", "odt", "docx">>

valid_formats == <<"markdown", "md", "html", "pdf", "odt">>
valid_image_formats == <<"jpg", "jpeg", "png", "webp", "svg">>

_validate_input_section(job) ==
    LET input_data == job["input"]
    IN  IF "format" \notin DOMAIN input_data
        THEN Raise("ValueError", "Missing required field: input.format")
        ELSE IF "directory" \notin DOMAIN input_data /\ "files" \notin DOMAIN input_data
        THEN Raise("ValueError", "Either input.directory or input.files must be specified")
        ELSE IF Lower(input_data["format"]) \notin Range(valid_formats)
        THEN Raise("ValueError", "Invalid input format: " \o input_data["format"]
                                  \o ". Must be one of: " \o JoinStr(", ", valid_formats))
        ELSE Return(PyNone)

_validate_output_section(job) ==
    LET output_data == job["output"]
    IN  IF "format" \notin DOMAIN output_data
        THEN Raise("ValueError", "Missing required field: output.format")
        ELSE IF "directory" \notin DOMAIN output_data /\ "file" \notin DOMAIN output_data
        THEN Raise("ValueError", "Either output.directory or output.file must be specified")
        ELSE IF Lower(output_data["format"]) \notin Range(valid_formats)
        THEN Raise("ValueError", "Invalid output format: " \o output_data["format"]
                                  \o ". Must be one of: " \o JoinStr(", ", valid_formats))
        ELSE Return(PyNone)

RECURSIVE CheckImageFormats(_, _)
\* the loop over images_data['formats'], from position i
CheckImageFormats(formats, i) ==
    IF i > Len(formats) THEN Return(PyNone)
    ELSE IF Lower(formats[i]) \notin Range(valid_image_formats)
    THEN Raise("ValueError", "Invalid image format: " \o formats[i]
                              \o ". Must be one of: " \o JoinStr(", ", valid_image_formats))
    ELSE CheckImageFormats(formats, i + 1)

_validate_images_section(images_data) ==
    IF "embed" \in DOMAIN images_data /\ ~IsBool(images_data["embed"])
    THEN Raise("ValueError", "options.images.embed must be a boolean")
    ELSE IF "formats" \notin DOMAIN images_data
    THEN Return(PyNone)
    ELSE IF ~IsList(images_data["formats"])
    THEN Raise("ValueError", "options.images.formats must be a list")
    ELSE CheckImageFormats(images_data["formats"].pylist, 1)

_validate_options_section(job, files) ==
    LET options_data == job["options"]
        w1 == IF "css" \in DOMAIN options_data /\ ~exists(files, options_data["css"])
              THEN <<"Warning: CSS file not found: " \o options_data["css"]>>
              ELSE <<>>
        w2 == IF "cover_page" \in DOMAIN options_data /\ ~exists(files, options_data["cover_page"])
              THEN <<"Warning: Cover page file not found: " \o options_data["cover_page"]>>
              ELSE <<>>
    IN  IF "images" \in DOMAIN options_data
        THEN Warn(w1 \o w2, _validate_images_section(options_data["images"]))
        ELSE Warn(w1 \o w2, Return(PyNone))

RECURSIVE CheckDocuments(_, _, _, _)
\* the loop "for i, doc in enumerate(documents_data)", from position i (1-based
\* here, printed 0-based)
CheckDocuments(job, files, docs, i) ==
    IF i > Len(docs) THEN Return(PyNone)
    ELSE IF ~IsDict(docs[i])
    THEN Raise("ValueError", "Document at index " \o ToString(i - 1) \o " must be an object")
    ELSE IF "file" \notin DOMAIN docs[i]
    THEN Raise("ValueError", "Missing required field: documents[" \o ToString(i - 1) \o "].file")
    ELSE LET file_path == join(job["input"]["directory"], docs[i]["file"])
             w == IF "directory" \in DOMAIN job["input"] /\ ~exists(files, file_path)
                  THEN <<"Warning: Document file not found: " \o file_path>>
                  ELSE <<>>
         IN  Warn(w, CheckDocuments(job, files, docs, i + 1))

\* a variant that rejects a document whose file is not in the directory
_validate_documents_section_strict(job, files) ==
    LET documents_data == job["documents"]
    IN  IF ~IsList(documents_data)
        THEN Raise("ValueError", "documents section must be a list")
        ELSE LET r == CheckDocuments(job, files, documents_data.pylist, 1)
             IN  IF Ok(r) /\ r.warnings # <<>>
                 THEN Raise("ValueError", "Document file not found")
                 ELSE r

_validate_documents_section(job, files) ==
    LET documents_data == job["documents"]
    IN  IF ~IsList(documents_data)
        THEN Raise("ValueError", "documents section must be a list")
        ELSE CheckDocuments(job, files, documents_data.pylist, 1)

\* a variant that requires combine.output_file whether or not enabled is true
_validate_combine_section_output_always(job) ==
    LET combine_data == job["combine"]
    IN  IF ~IsDict(combine_data)
        THEN Raise("ValueError", "combine section must be an object")
        ELSE IF "enabled" \notin DOMAIN combine_data
        THEN Raise("ValueError", "Missing required field: combine.enabled")
        ELSE IF ~IsBool(combine_data["enabled"])
        THEN Raise("ValueError", "combine.enabled must be a boolean")
        ELSE IF "output_file" \notin DOMAIN combine_data
        THEN Raise("ValueError",
                   "Missing required field: combine.output_file when combine.enabled is true")
        ELSE Return(PyNone)

_validate_combine_section(job) ==
    LET combine_data == job["combine"]
    IN  IF ~IsDict(combine_data)
        THEN Raise("ValueError", "combine section must be an object")
        ELSE IF "enabled" \notin DOMAIN combine_data
        THEN Raise("ValueError", "Missing required field: combine.enabled")
        ELSE IF ~IsBool(combine_data["enabled"])
        THEN Raise("ValueError", "combine.enabled must be a boolean")
        ELSE IF Truthy(combine_data["enabled"]) /\ "output_file" \notin DOMAIN combine_data
        THEN Raise("ValueError",
                   "Missing required field: combine.output_file when combine.enabled is true")
        ELSE Return(PyNone)

\* the three optional sections, in the order the code validates them
ValidateOptional(job, files) ==
    LET r1 == IF "options" \in DOMAIN job
              THEN _validate_options_section(job, files) ELSE Return(PyNone)
        r2 == IF "documents" \in DOMAIN job
              THEN _validate_documents_section(job, files) ELSE Return(PyNone)
        r3 == IF "combine" \in DOMAIN job
              THEN _validate_combine_section(job) ELSE Return(PyNone)
    IN  IF ~Ok(r1) THEN r1
        ELSE IF ~Ok(r2) THEN Warn(r1.warnings, r2)
        ELSE Warn(r1.warnings \o r2.warnings, r3)

\* a variant that validates the output section before the input section
_validate_job_data_output_first(job, files) ==
    IF Falsy(job)
    THEN Raise("ValueError", "Job data is empty")
    ELSE IF "input" \notin DOMAIN job
    THEN Raise("ValueError", "Missing required section: input")
    ELSE IF "output" \notin DOMAIN job
    THEN Raise("ValueError", "Missing required section: output")
    ELSE LET i == _validate_input_section(job)
             o == _validate_output_section(job)
         IN  IF ~Ok(o) THEN o
             ELSE IF ~Ok(i) THEN i
             ELSE ValidateOptional(job, files)

_validate_job_data(job, files) ==
    IF Falsy(job)
    THEN Raise("ValueError", "Job data is empty")
    ELSE IF "input" \notin DOMAIN job
    THEN Raise("ValueError", "Missing required section: input")
    ELSE IF "output" \notin DOMAIN job
    THEN Raise("ValueError", "Missing required section: output")
    ELSE LET i == _validate_input_section(job)
             o == _validate_output_section(job)
         IN  IF ~Ok(i) THEN i
             ELSE IF ~Ok(o) THEN o
             ELSE ValidateOptional(job, files)

----------------------------------------------------------------------------
(* doctool.py: the command line *)

\* The parsed arguments are a function from the flags given on the command
\* line to their values; argparse leaves every other attribute None or False.
\* "if args.x": the flag was given and its value is not empty.
Given(args, flag) ==
    /\ flag \in DOMAIN args
    /\ IF flag = "files" THEN args[flag] # <<>> ELSE Truthy(args[flag])

validate_args(args) ==
    IF Given(args, "job_file") THEN TRUE
    ELSE IF ~(Given(args, "input_dir") \/ Given(args, "input_file")) THEN FALSE
    ELSE IF ~(Given(args, "output_dir") \/ Given(args, "output_file")) THEN FALSE
    ELSE IF ~(Given(args, "from_format") /\ Given(args, "to_format")) THEN FALSE
    ELSE TRUE

create_job_data_from_args(args) ==
    LET input ==
            (IF Given(args, "input_dir") THEN [directory |-> args["input_dir"]]
             ELSE IF Given(args, "input_file") THEN [files |-> <<args["input_file"]>>]
             ELSE EmptyDict)
            @@ (IF Given(args, "from_format") THEN [format |-> args["from_format"]]
                ELSE EmptyDict)
        output ==
            (IF Given(args, "output_dir") THEN [directory |-> args["output_dir"]]
             ELSE IF Given(args, "output_file") THEN [file |-> args["output_file"]]
             ELSE EmptyDict)
            @@ (IF Given(args, "to_format") THEN [format |-> args["to_format"]]
                ELSE EmptyDict)
        options ==
            (IF Given(args, "css") THEN [css |-> args["css"]] ELSE EmptyDict)
            @@ (IF Given(args, "toc") THEN [toc |-> PyTrue] ELSE EmptyDict)
            @@ (IF Given(args, "embed_images")
                THEN [images |-> [embed |-> PyTrue,
                                  formats |-> [pylist |-> <<"jpg", "jpeg", "png", "webp", "svg">>]]]
                ELSE EmptyDict)
        combine ==
            [enabled |-> PyTrue]
            @@ (IF Given(args, "output_file") THEN [output_file |-> args["output_file"]]
                ELSE EmptyDict)
        documents ==
            [pylist |-> [i \in 1..Len(args["files"]) |-> [file |-> args["files"][i]]]]
    IN  [input |-> input, output |-> output, options |-> options]
        @@ (IF Given(args, "combine") THEN [combine |-> combine] ELSE EmptyDict)
        @@ (IF Given(args, "combine") /\ Given(args, "files")
            THEN [documents |-> documents] ELSE EmptyDict)

----------------------------------------------------------------------------
(* core/converter.py: ConversionManager *)

\* The manager is the record m of its three fields.  A method's outcome is
\* the record of Return or Raise extended with the manager and the file
\* system it leaves and the internal steps it took, in order.
Manager(jd, inf, outf) == [job_data |-> jd, input_files |-> inf, output_files |-> outf]

Step(r, m, files, events) ==
    [raised |-> r.raised, msg |-> r.msg, ret |-> r.ret, warnings |-> r.warnings,
     m |-> m, fs |-> files, events |-> events]

ext_map == [markdown |-> ".md", html |-> ".html", pdf |-> ".pdf", odt |-> ".odt"]

\* "md" is normalized to "markdown" after lower-casing
\* a variant that lower-cases and leaves md as it is
NormalizeFormat_lower(format) == Lower(format)

NormalizeFormat(format) ==
    LET lowered == Lower(format)
    IN  IF lowered = "md" THEN "markdown" ELSE lowered

\* file_ext = ext_map.get(input_format, '.md')
FileExt(format) ==
    LET input_format == NormalizeFormat(format)
    IN  IF input_format \in DOMAIN ext_map THEN ext_map[input_format] ELSE ".md"

RECURSIVE OrderedDocuments(_, _, _, _)
\* the loop over job_data['documents'] from position i: the paths appended to
\* ordered_files, the warnings printed, and the exception that ends the loop
OrderedDocuments(docs, input_dir, files, i) ==
    IF i > Len(docs) THEN Return(<<>>)
    ELSE IF ~IsDict(docs[i])
    THEN Raise("TypeError", "string indices must be integers")
    ELSE IF "file" \notin DOMAIN docs[i]
    THEN Raise("KeyError", "'file'")
    ELSE LET file_path == join(input_dir, docs[i]["file"])
             rest == OrderedDocuments(docs, input_dir, files, i + 1)
         IN  IF exists(files, file_path)
             THEN IF Ok(rest) THEN [rest EXCEPT !.ret = <<file_path>> \o @] ELSE rest
             ELSE Warn(<<"Warning: Document file not found: " \o file_path>>, rest)

\* the existing paths of input_data['files'], in order, and the warnings
RECURSIVE ExistingFiles(_, _, _)
ExistingFiles(paths, files, i) ==
    IF i > Len(paths) THEN Return(<<>>)
    ELSE LET rest == ExistingFiles(paths, files, i + 1)
         IN  IF exists(files, paths[i])
             THEN [rest EXCEPT !.ret = <<paths[i]>> \o @]
             ELSE Warn(<<"Warning: Input file not found: " \o paths[i]>>, rest)

\* a variant that ignores the documents section: the directory listing, or
\* the existing input files, stay
_gather_input_files_listing(m, files, scan) ==
    LET input_data == m.job_data["input"]
    IN  IF "input" \notin DOMAIN m.job_data \/ "format" \notin DOMAIN input_data
        THEN Step(Raise("KeyError", "'input'"), m, files, <<"_gather_input_files">>)
        ELSE IF "directory" \in DOMAIN input_data
        THEN IF ~exists(files, input_data["directory"])
             THEN Step(Raise("ValueError", "Input directory does not exist: "
                                            \o input_data["directory"]),
                       m, files, <<"_gather_input_files">>)
             ELSE Step(Return(PyNone),
                       [m EXCEPT !.input_files =
                            GlobPaths(files, scan, input_data["directory"],
                                      FileExt(input_data["format"]))],
                       files, <<"_gather_input_files">>)
        ELSE IF "files" \in DOMAIN input_data
        THEN Step(Return(PyNone),
                  [m EXCEPT !.input_files = ExistingFiles(input_data["files"], files, 1).ret],
                  files, <<"_gather_input_files">>)
        ELSE Step(Return(PyNone), m, files, <<"_gather_input_files">>)

_gather_input_files(m, files, scan) ==
    IF "input" \notin DOMAIN m.job_data
    THEN Step(Raise("KeyError", "'input'"), m, files, <<"_gather_input_files">>)
    ELSE IF "format" \notin DOMAIN m.job_data["input"]
    THEN Step(Raise("KeyError", "'format'"), m, files, <<"_gather_input_files">>)
    ELSE
    LET input_data == m.job_data["input"]
        file_ext == FileExt(input_data["format"])
        listing == GlobPaths(files, scan, input_data["directory"], file_ext)
    IN  IF "directory" \in DOMAIN input_data
        THEN IF ~exists(files, input_data["directory"])
             THEN Step(Raise("ValueError", "Input directory does not exist: "
                                            \o input_data["directory"]),
                       m, files, <<"_gather_input_files">>)
             ELSE IF "documents" \notin DOMAIN m.job_data
             THEN Step(Return(PyNone), [m EXCEPT !.input_files = listing], files, <<"_gather_input_files">>)
             ELSE IF ~IsList(m.job_data["documents"])
             THEN Step(Raise("TypeError", "string indices must be integers"),
                       [m EXCEPT !.input_files = listing], files, <<"_gather_input_files">>)
             ELSE LET r == OrderedDocuments(m.job_data["documents"].pylist,
                                            input_data["directory"], files, 1)
                  IN  IF Ok(r)
                      THEN Step(Warn(r.warnings, Return(PyNone)),
                                [m EXCEPT !.input_files = r.ret], files, <<"_gather_input_files">>)
                      ELSE Step(r, [m EXCEPT !.input_files = listing], files, <<"_gather_input_files">>)
        ELSE IF "files" \in DOMAIN input_data
        THEN LET r == ExistingFiles(input_data["files"], files, 1)
             IN  Step(Warn(r.warnings, Return(PyNone)),
                      [m EXCEPT !.input_files = r.ret], files, <<"_gather_input_files">>)
        ELSE Step(Return(PyNone), m, files, <<"_gather_input_files">>)

RECURSIVE makedirs(_, _)
\* os.makedirs(d, exist_ok=True): d and the missing directories above it
makedirs(files, d) ==
    IF d = "" \/ d = "/" \/ d = "." \/ exists(files, d) THEN files
    ELSE makedirs(files \cup {NormPath(d)}, dirname(d))

_prepare_output_directories(m, files) ==
    IF "output" \notin DOMAIN m.job_data
    THEN Step(Raise("KeyError", "'output'"), m, files, <<"_prepare_output_directories">>)
    ELSE IF "directory" \in DOMAIN m.job_data["output"]
    THEN Step(Return(PyNone), m, makedirs(files, m.job_data["output"]["directory"]),
              <<"_prepare_output_directories">>)
    ELSE Step(Return(PyNone), m, files, <<"_prepare_output_directories">>)

\* the outcome of step g followed, if g did not raise, by step h
Chain(g, h) ==
    IF ~Ok(g) THEN g
    ELSE [h EXCEPT !.warnings = g.warnings \o @, !.events = g.events \o @]

\* the rest of prepare_conversion after the gathering step g
ThenPrepareOutput(g) ==
    IF ~Ok(g) THEN g ELSE Chain(g, _prepare_output_directories(g.m, g.fs))

prepare_conversion(m, files, scan) ==
    IF Falsy(m.job_data)
    THEN Step(Raise("ValueError", "Job data not set. Load a job file or set job data directly."),
              m, files, <<>>)
    ELSE ThenPrepareOutput(_gather_input_files(m, files, scan))

\* The conversion itself is a placeholder: no converter is invoked and the
\* output list is the input list.
\* a variant that returns the files in the opposite order
_convert_files_reversed(m, conversion_path) ==
    [m EXCEPT !.output_files =
        [i \in DOMAIN m.input_files |-> m.input_files[Len(m.input_files) + 1 - i]]]

\* a variant that writes the resolved source format back into the job
_convert_files_normalizing(m, conversion_path) ==
    [m EXCEPT !.output_files = m.input_files,
              !.job_data["input"]["format"] = conversion_path[1]]

_convert_files(m, conversion_path) == [m EXCEPT !.output_files = m.input_files]

\* a variant that copies nothing
_copy_files_none(m) == [m EXCEPT !.output_files = <<>>]

_copy_files(m) == [m EXCEPT !.output_files = m.input_files]

\* a variant that puts the combined file in the place of the per-file list
_combine_files_substituted(m, files) ==
    IF "output_file" \notin DOMAIN m.job_data["combine"]
    THEN Step(Raise("KeyError", "'output_file'"), m, files, <<"_combine_files">>)
    ELSE Step(Return(PyNone),
              [m EXCEPT !.output_files = <<m.job_data["combine"]["output_file"]>>],
              files, <<"_combine_files">>)

_combine_files(m, files) ==
    IF "output_file" \notin DOMAIN m.job_data["combine"]
    THEN Step(Raise("KeyError", "'output_file'"), m, files, <<"_combine_files">>)
    ELSE Step(Return(PyNone), m, files, <<"_combine_files">>)

\* 'combine' in job_data and job_data['combine'].get('enabled', False)
CombineRequested(job) ==
    /\ "combine" \in DOMAIN job
    /\ "enabled" \in DOMAIN job["combine"]
    /\ Truthy(job["combine"]["enabled"])

\* a variant that fills output_files before the path is resolved
ConvertGathered_convert_first(m, files) ==
    IF "input" \notin DOMAIN m.job_data
    THEN Step(Raise("KeyError", "'input'"), m, files, <<>>)
    ELSE IF "format" \notin DOMAIN m.job_data["input"]
    THEN Step(Raise("KeyError", "'format'"), m, files, <<>>)
    ELSE IF "output" \notin DOMAIN m.job_data
    THEN Step(Raise("KeyError", "'output'"), m, files, <<>>)
    ELSE IF "format" \notin DOMAIN m.job_data["output"]
    THEN Step(Raise("KeyError", "'format'"), m, files, <<>>)
    ELSE
    LET input_format == NormalizeFormat(m.job_data["input"]["format"])
        output_format == NormalizeFormat(m.job_data["output"]["format"])
        path == _determine_conversion_path(input_format, output_format)
        converted == _convert_files(m, path.ret)
    IN  IF input_format = output_format
        THEN Step(Return(_copy_files(m).output_files), _copy_files(m), files, <<"_copy_files">>)
        ELSE IF ~Ok(path)
        THEN Step(path, converted, files, <<"_determine_conversion_path">>)
        ELSE IF "combine" \in DOMAIN m.job_data /\ ~IsDict(m.job_data["combine"])
        THEN Step(Raise("AttributeError", "object has no attribute 'get'"),
                  converted, files, <<"_determine_conversion_path", "_convert_files">>)
        ELSE IF CombineRequested(m.job_data)
        THEN Chain(Step(Return(PyNone), converted, files, <<"_determine_conversion_path", "_convert_files">>),
                   LET c == _combine_files(converted, files)
                   IN  IF Ok(c) THEN [c EXCEPT !.ret = c.m.output_files] ELSE c)
        ELSE Step(Return(converted.output_files), converted, files, <<"_determine_conversion_path", "_convert_files">>)

\* run_conversion from the point where the input files are gathered
ConvertGathered(m, files) ==
    IF "input" \notin DOMAIN m.job_data
    THEN Step(Raise("KeyError", "'input'"), m, files, <<>>)
    ELSE IF "format" \notin DOMAIN m.job_data["input"]
    THEN Step(Raise("KeyError", "'format'"), m, files, <<>>)
    ELSE IF "output" \notin DOMAIN m.job_data
    THEN Step(Raise("KeyError", "'output'"), m, files, <<>>)
    ELSE IF "format" \notin DOMAIN m.job_data["output"]
    THEN Step(Raise("KeyError", "'format'"), m, files, <<>>)
    ELSE
    LET input_format == NormalizeFormat(m.job_data["input"]["format"])
        output_format == NormalizeFormat(m.job_data["output"]["format"])
        path == _determine_conversion_path(input_format, output_format)
        converted == _convert_files(m, path.ret)
    IN  IF input_format = output_format
        THEN Step(Return(_copy_files(m).output_files), _copy_files(m), files, <<"_copy_files">>)
        ELSE IF ~Ok(path)
        THEN Step(path, m, files, <<"_determine_conversion_path">>)
        ELSE IF "combine" \in DOMAIN m.job_data /\ ~IsDict(m.job_data["combine"])
        THEN Step(Raise("AttributeError", "object has no attribute 'get'"),
                  converted, files, <<"_determine_conversion_path", "_convert_files">>)
        ELSE IF CombineRequested(m.job_data)
        THEN Chain(Step(Return(PyNone), converted, files, <<"_determine_conversion_path", "_convert_files">>),
                   LET c == _combine_files(converted, files)
                   IN  IF Ok(c) THEN [c EXCEPT !.ret = c.m.output_files] ELSE c)
        ELSE Step(Return(converted.output_files), converted, files, <<"_determine_conversion_path", "_convert_files">>)

\* the rest of run_conversion after step p, which prepared the conversion if
\* no input files were held
ThenConvert(p) == IF ~Ok(p) THEN p ELSE Chain(p, ConvertGathered(p.m, p.fs))

run_conversion(m, files, scan) ==
    IF Falsy(m.job_data)
    THEN Step(Raise("ValueError", "Job data not set. Load a job file or set job data directly."),
              m, files, <<>>)
    ELSE ThenConvert(IF m.input_files = <<>> THEN prepare_conversion(m, files, scan)
                     ELSE Step(Return(PyNone), m, files, <<>>))

----------------------------------------------------------------------------
(* job/job_parser.py: parse_file, find_job_file, load_job_file *)

\* The content of a job file is its text: [kind |-> "json", job |-> tree] is
\* JSON text, which json.load and yaml.safe_load (JSON being YAML) both
\* decode to the tree; [kind |-> "yaml", job |-> tree] is YAML text that is
\* no JSON, which only yaml.safe_load decodes (an empty file to None);
\* [kind |-> "malformed"] is text that both decoders reject.
Decodes(decoder, text) ==
    \/ text.kind = "json"
    \/ text.kind = "yaml" /\ decoder = "yaml.safe_load"

\* "self._validate_job_data(); return self.job_data", v being the outcome of
\* the validation
Decoded(decoder, job, v) ==
    IF Ok(v) THEN Warn(v.warnings, Return(job)) @@ [events |-> <<decoder, "_validate_job_data">>]
    ELSE v @@ [events |-> <<decoder, "_validate_job_data">>]

\* a variant that returns what it decoded without validating it
parse_file_unvalidated(files, cont, file_path) ==
    LET file_ext == Lower(splitext1(file_path))
        text == cont[NormPath(file_path)]
        decoder == IF file_ext = ".json" THEN "json.load" ELSE "yaml.safe_load"
    IN  IF ~exists(files, file_path)
        THEN Raise("FileNotFoundError", "Job file not found: " \o file_path) @@ [events |-> <<>>]
        ELSE IF file_ext \notin {".yaml", ".yml", ".json"}
        THEN Raise("ValueError", "Unsupported job file format: " \o file_ext)
             @@ [events |-> <<>>]
        ELSE IF ~Decodes(decoder, text)
        THEN Raise("ValueError", IF file_ext = ".json" THEN "Invalid JSON format: decoder message"
                                 ELSE "Invalid YAML format: decoder message")
             @@ [events |-> <<decoder>>]
        ELSE Return(text.job) @@ [events |-> <<decoder>>]

parse_file(files, cont, file_path) ==
    LET file_ext == Lower(splitext1(file_path))
        text == cont[NormPath(file_path)]
        decoder == IF file_ext = ".json" THEN "json.load" ELSE "yaml.safe_load"
    IN  IF ~exists(files, file_path)
        THEN Raise("FileNotFoundError", "Job file not found: " \o file_path) @@ [events |-> <<>>]
        ELSE IF file_ext \notin {".yaml", ".yml", ".json"}
        THEN Raise("ValueError", "Unsupported job file format: " \o file_ext)
             @@ [events |-> <<>>]
        ELSE IF ~Decodes(decoder, text)
        THEN Raise("ValueError", IF file_ext = ".json" THEN "Invalid JSON format: decoder message"
                                 ELSE "Invalid YAML format: decoder message")
             @@ [events |-> <<decoder>>]
        ELSE Decoded(decoder, text.job, _validate_job_data(text.job, files))

load_job_file(files, cont, file_path) == parse_file(files, cont, file_path)

RECURSIVE FirstEndingWith(_, _, _)
\* the first name of names, from position i, that ends with ext, or ""
FirstEndingWith(names, ext, i) ==
    IF i > Len(names) THEN ""
    ELSE IF EndsWith(names[i], ext) THEN names[i]
    ELSE FirstEndingWith(names, ext, i + 1)

\* returns [some |-> path], or PyNone
find_job_file(files, scan, directory) ==
    LET names == listdir(files, scan, directory)
        yaml == FirstEndingWith(names, ".yaml", 1)
        yml == FirstEndingWith(names, ".yml", 1)
        json == FirstEndingWith(names, ".json", 1)
    IN  IF yaml # "" THEN [some |-> join(directory, yaml)]
        ELSE IF yml # "" THEN [some |-> join(directory, yml)]
        ELSE IF json # "" THEN [some |-> join(directory, json)]
        ELSE PyNone

IsNone(v) == "pynone" \in DOMAIN v

----------------------------------------------------------------------------
(* core/converter.py: convert_documents *)

\* run_conversion on a new manager holding job
RunNew(job, files, scan, events) ==
    LET r == run_conversion(Manager(job, <<>>, <<>>), files, scan)
    IN  [r EXCEPT !.events = events \o @]

\* a failure to load the job: nothing was run
NotRun(r, files) == Step(r, Manager(PyNone, <<>>, <<>>), files, r.events)

\* "manager = ConversionManager(); manager.load_job_file(..) or
\* manager.set_job_data(..); return manager.run_conversion()", l being the
\* outcome of obtaining the job and found the steps taken before it
RunLoaded(l, found, files, scan) ==
    IF ~Ok(l) THEN NotRun([l EXCEPT !.events = found \o @], files)
    ELSE Warn(l.warnings, RunNew(l.ret, files, scan, found \o l.events))

\* a variant that prefers job_data to job_file
convert_documents_data_first(files, cont, kwargs, scan) ==
    LET from_data == "job_data" \in DOMAIN kwargs /\ ~Falsy(kwargs["job_data"])
        searched == ~Given(kwargs, "job_file") /\ ~from_data
        job_file == IF searched THEN find_job_file(files, scan, ".")
                    ELSE [some |-> kwargs["job_file"]]
    IN  RunLoaded(IF from_data
                  THEN Return(kwargs["job_data"]) @@ [events |-> <<"set_job_data">>]
                  ELSE IF IsNone(job_file)
                  THEN Raise("ValueError", "No job file or job data provided")
                       @@ [events |-> <<>>]
                  ELSE load_job_file(files, cont, job_file.some),
                  IF searched THEN <<"find_job_file">> ELSE <<>>, files, scan)

\* kwargs holds the keyword arguments given: job_file, job_data
convert_documents(files, cont, kwargs, scan) ==
    LET from_data == ~Given(kwargs, "job_file")
                        /\ "job_data" \in DOMAIN kwargs /\ ~Falsy(kwargs["job_data"])
        searched == ~Given(kwargs, "job_file") /\ ~from_data
        job_file == IF searched THEN find_job_file(files, scan, ".")
                    ELSE [some |-> kwargs["job_file"]]
    IN  RunLoaded(IF from_data
                  THEN Return(kwargs["job_data"]) @@ [events |-> <<"set_job_data">>]
                  ELSE IF IsNone(job_file)
                  THEN Raise("ValueError", "No job file or job data provided")
                       @@ [events |-> <<>>]
                  ELSE load_job_file(files, cont, job_file.some),
                  IF searched THEN <<"find_job_file">> ELSE <<>>, files, scan)

----------------------------------------------------------------------------
(* doctool.py: main *)

\* The outcome of main: the exit code, the branch taken, the calls of
\* convert_documents (its keyword arguments, in order), whether the error text
\* went to standard output or to standard error, and the file system left.
Exit(code, branch, conversions, errout, errerr, r, files) ==
    [code |-> code, branch |-> branch, conversions |-> conversions,
     stdout_error |-> errout, stderr_error |-> errerr, run |-> r, fs |-> files]

\* "try: output_files = convert_documents(..) .. return 0; except Exception: .. return 1"
ExitOf(branch, kwargs, r) ==
    IF Ok(r) THEN Exit(0, branch, <<kwargs>>, "", "", r, r.fs)
    ELSE Exit(1, branch, <<kwargs>>, "", "Error: " \o r.msg, r, r.fs)

Converted(branch, kwargs, files, cont, scan) ==
    ExitOf(branch, kwargs, convert_documents(files, cont, kwargs, scan))

NoRun == Step(Return(PyNone), Manager(PyNone, <<>>, <<>>), {}, <<>>)

\* a variant that looks at the flags before the job file
main_flags_first(files, cont, args, scan) ==
    LET job_file == find_job_file(files, scan, ".")
        branch == IF validate_args(args) THEN "flags"
                  ELSE IF Given(args, "job_file") THEN "job_file"
                  ELSE IF ~IsNone(job_file) THEN "auto"
                  ELSE "usage"
        kwargs == CASE branch = "job_file" -> [job_file |-> args["job_file"]]
                    [] branch = "flags" -> [job_data |-> create_job_data_from_args(args)]
                    [] branch = "auto" -> [job_file |-> job_file.some]
    IN  IF branch = "usage"
        THEN Exit(1, "usage", <<>>,
                  "Error: No job file found and insufficient command-line arguments provided.",
                  "", NoRun, files)
        ELSE Converted(branch, kwargs, files, cont, scan)

main(files, cont, args, scan) ==
    LET job_file == find_job_file(files, scan, ".")
        branch == IF Given(args, "job_file") THEN "job_file"
                  ELSE IF validate_args(args) THEN "flags"
                  ELSE IF ~IsNone(job_file) THEN "auto"
                  ELSE "usage"
        kwargs == CASE branch = "job_file" -> [job_file |-> args["job_file"]]
                    [] branch = "flags" -> [job_data |-> create_job_data_from_args(args)]
                    [] branch = "auto" -> [job_file |-> job_file.some]
    IN  IF branch = "usage"
        THEN Exit(1, "usage", <<>>,
                  "Error: No job file found and insufficient command-line arguments provided.",
                  "", NoRun, files)
        ELSE Converted(branch, kwargs, files, cont, scan)

----------------------------------------------------------------------------
(* converters/pdf_combiner.py: PdfCombiner *)

\* combine_files checks that every input exists, then merges them with the
\* PDF library (not modelled) into output_file.
combine_files(files, paths, output_file) ==
    IF \E i \in DOMAIN paths : ~exists(files, paths[i])
    THEN LET i == CHOOSE k \in DOMAIN paths :
                    /\ ~exists(files, paths[k])
                    /\ \A j \in 1..(k - 1) : exists(files, paths[j])
         IN  Raise("FileNotFoundError", "Input file not found: " \o paths[i])
    ELSE Return(output_file)

RECURSIVE OrderedExisting(_, _, _, _)
\* the loop over file_order from position i: the paths appended to
\* ordered_files
OrderedExisting(file_order, input_dir, files, i) ==
    IF i > Len(file_order) THEN <<>>
    ELSE IF exists(files, join(input_dir, file_order[i]))
    THEN <<join(input_dir, file_order[i])>> \o OrderedExisting(file_order, input_dir, files, i + 1)
    ELSE OrderedExisting(file_order, input_dir, files, i + 1)

RECURSIVE AppendRemaining(_, _, _)
\* "for file_path in pdf_files: if file_path not in ordered_files: append"
AppendRemaining(ordered_files, pdf_files, i) ==
    IF i > Len(pdf_files) THEN ordered_files
    ELSE IF pdf_files[i] \in Range(ordered_files)
    THEN AppendRemaining(ordered_files, pdf_files, i + 1)
    ELSE AppendRemaining(Append(ordered_files, pdf_files[i]), pdf_files, i + 1)

\* a variant that sorts the matching files whatever file_order says
combine_directory_sorted(files, scan, input_dir, output_file, ext, file_order) ==
    LET passed == sorted(GlobPaths(files, scan, input_dir, ext))
    IN  IF ~exists(files, input_dir)
        THEN Raise("FileNotFoundError", "Input directory not found: " \o input_dir)
             @@ [passed |-> <<>>, called |-> FALSE]
        ELSE combine_files(files, passed, output_file) @@ [passed |-> passed, called |-> TRUE]

\* file_order is [pylist |-> <<names>>] or PyNone; ext is the pattern's suffix
\* ("*.pdf" is ".pdf").  The outcome carries the list passed to combine_files.
combine_directory(files, scan, input_dir, output_file, ext, file_order) ==
    LET pdf_files == GlobPaths(files, scan, input_dir, ext)
        passed == IF IsNone(file_order) \/ file_order.pylist = <<>>
                  THEN sorted(pdf_files)
                  ELSE AppendRemaining(OrderedExisting(file_order.pylist, input_dir, files, 1),
                                       pdf_files, 1)
    IN  IF ~exists(files, input_dir)
        THEN Raise("FileNotFoundError", "Input directory not found: " \o input_dir)
             @@ [passed |-> <<>>, called |-> FALSE]
        ELSE combine_files(files, passed, output_file) @@ [passed |-> passed, called |-> TRUE]

----------------------------------------------------------------------------
(* Bounds and input universes *)

\* the longest documents list and file_order list tried
MaxDocs == 2

\* the sequences over S of length at most n
SeqsUpTo(S, n) == UNION {[1..k -> S] : k \in 0..n}

\* the dicts with no key, or with the key name and a value of values
Section(name, values) == {EmptyDict} \cup {name :> v : v \in values}

\* format names given to the path resolver
PathFormats == {"markdown", "html", "pdf", "odt", "md", "docx", "Markdown", "txt"}

InputSections ==
    { EmptyDict,
      [format |-> "docx"],
      [format |-> "markdown", directory |-> "in"],
      [format |-> "MD", files |-> <<"in/c.md", "in/a.md">>],
      [format |-> "docx", directory |-> "in"],
      [format |-> "html", directory |-> "in", files |-> <<"in/a.md">>] }

OutputSections ==
    { EmptyDict,
      [format |-> "rtf"],
      [format |-> "pdf", file |-> "out/all.pdf"],
      [format |-> "Html", directory |-> "out"],
      [format |-> "rtf", directory |-> "out"],
      [format |-> "md", directory |-> "out", file |-> "out/all.md"] }

OptionsSections ==
    { [css |-> "style.css", toc |-> PyTrue],
      [images |-> [embed |-> "yes"]],
      [cover_page |-> "cover.md", images |-> [formats |-> [pystr |-> "png"]]],
      [images |-> [embed |-> PyFalse, formats |-> [pylist |-> <<"PNG", "gif">>]]] }

DocEntries ==
    { [file |-> "c.md", title |-> "C"], [file |-> ""], [title |-> "T"], [pystr |-> "a.md"] }

DocumentsSections ==
    {[pystr |-> "c.md"]} \cup {[pylist |-> d] : d \in SeqsUpTo(DocEntries, MaxDocs)}

CombineSections ==
    { [pystr |-> "yes"],
      EmptyDict,
      [enabled |-> "yes", output_file |-> "out/all.pdf"],
      [enabled |-> PyFalse],
      [enabled |-> PyTrue],
      [enabled |-> PyTrue, output_file |-> "out/all.pdf"] }

\* the job descriptions given to the validator
JobUniverse ==
    { i @@ o @@ p @@ d @@ c :
        i \in Section("input", InputSections),
        o \in Section("output", OutputSections),
        p \in Section("options", OptionsSections),
        d \in Section("documents", DocumentsSections),
        c \in Section("combine", CombineSections) }

\* the command lines: each flag absent or given with one of a few values
ArgsUniverse ==
    { a @@ b @@ c @@ d @@ e @@ f @@ g @@ h @@ k :
        a \in Section("input_dir", {"in"}),
        b \in Section("input_file", {"in/a.md"}),
        c \in Section("from_format", {"md", "html"}),
        d \in Section("output_dir", {"out"}),
        e \in Section("output_file", {"out/all.pdf"}),
        f \in Section("to_format", {"pdf", "markdown"}),
        g \in Section("combine", {PyTrue}),
        h \in Section("files", {<<"c.md", "a.md">>}),
        k \in { x @@ y @@ z : x \in Section("css", {"style.css"}),
                              y \in Section("toc", {PyTrue}),
                              z \in Section("embed_images", {PyTrue}) } }

ValidateFileSystems ==
    { {"in", "in/a.md", "in/c.md", "style.css"}, {"in", "in/b.md"} }

\* the values of the variables an operation does not use
NoManager ==
    /\ job_data = PyNone
    /\ input_files = <<>>
    /\ output_files = <<>>

----------------------------------------------------------------------------
(* SpecPath: the path resolver applied to a pair of format names *)

InitPath ==
    /\ fs = {}
    /\ content = <<>>
    /\ NoManager
    /\ call \in {[op |-> "formats", input_format |-> a, output_format |-> b] :
                    a \in PathFormats, b \in PathFormats}

DeterminePath ==
    /\ call.op = "formats"
    /\ call' = [op |-> "_determine_conversion_path",
                input_format |-> call.input_format,
                output_format |-> call.output_format,
                out |-> _determine_conversion_path(call.input_format, call.output_format)]
    /\ UNCHANGED <<fs, content, job_data, input_files, output_files>>

NextPath == DeterminePath

SpecPath == InitPath /\ [][NextPath]_vars

----------------------------------------------------------------------------
(* SpecValidate: the validator applied to a job description that was read   *)
(* from a file or built from the command line                               *)

InitValidate ==
    /\ fs \in ValidateFileSystems
    /\ content = <<>>
    /\ NoManager
    /\ call \in {[op |-> "job", job |-> j] : j \in JobUniverse}
                \cup {[op |-> "args", args |-> a] : a \in ArgsUniverse}

CreateJobData ==
    /\ call.op = "args"
    /\ ~Given(call.args, "job_file")
    /\ validate_args(call.args)
    /\ call' = [op |-> "create_job_data_from_args", args |-> call.args,
                job |-> create_job_data_from_args(call.args)]
    /\ UNCHANGED <<fs, content, job_data, input_files, output_files>>

ValidateJob ==
    /\ call.op \in {"job", "create_job_data_from_args"}
    /\ call' = [op |-> "_validate_job_data", source |-> call.op, job |-> call.job,
                out |-> _validate_job_data(call.job, fs)]
    /\ UNCHANGED <<fs, content, job_data, input_files, output_files>>

NextValidate == CreateJobData \/ ValidateJob

SpecValidate == InitValidate /\ [][NextValidate]_vars

----------------------------------------------------------------------------
(* The actions of one ConversionManager *)

\* what a method of the manager leaves in call
Called(op, r) ==
    [op |-> op, raised |-> r.raised, msg |-> r.msg, ret |-> r.ret,
     warnings |-> r.warnings, events |-> r.events]

SetJobData(job) ==
    /\ job_data' = job
    /\ call' = [op |-> "set_job_data", raised |-> "", msg |-> "", ret |-> PyNone,
                warnings |-> <<>>, events |-> <<>>]
    /\ UNCHANGED <<fs, content, input_files, output_files>>

PrepareConversion ==
    \E scan \in ScanOrders(fs) :
        LET r == prepare_conversion(Manager(job_data, input_files, output_files), fs, scan)
        IN  /\ job_data' = r.m.job_data
            /\ input_files' = r.m.input_files
            /\ output_files' = r.m.output_files
            /\ fs' = r.fs
            /\ call' = Called("prepare_conversion", r)
            /\ UNCHANGED content

RunConversion ==
    \E scan \in ScanOrders(fs) :
        LET r == run_conversion(Manager(job_data, input_files, output_files), fs, scan)
        IN  /\ job_data' = r.m.job_data
            /\ input_files' = r.m.input_files
            /\ output_files' = r.m.output_files
            /\ fs' = r.fs
            /\ call' = Called("run_conversion", r)
            /\ UNCHANGED content

Constructed ==
    [op |-> "__init__", raised |-> "", msg |-> "", ret |-> PyNone,
     warnings |-> <<>>, events |-> <<>>]

\* every document is readable text, or the listed ones are not decodable
Documents(files, garbled) ==
    [p \in RegularFiles(files) |->
        IF p \in garbled THEN [kind |-> "garbled"] ELSE [kind |-> "text"]]

----------------------------------------------------------------------------
(* Spec: one manager on which job descriptions are set and run, repeatedly *)

ManagerFormats ==
    { <<"MD", "markdown">>, <<"markdown", "html">>, <<"md", "PDF">>, <<"html", "docx">> }

ManagerSources ==
    { [input |-> [directory |-> "in"]],
      [input |-> [directory |-> "in"],
       documents |-> [pylist |-> <<[file |-> "c.md"], [file |-> "zz.md"], [file |-> "a.md"]>>]],
      [input |-> [files |-> <<"in/c.md", "in/x.md", "in/b.md">>]],
      [input |-> [directory |-> "gone"]] }

ManagerCombines ==
    { EmptyDict,
      [combine |-> [enabled |-> PyFalse]],
      [combine |-> [enabled |-> PyTrue, output_file |-> "out/all.pdf"]] }

ManagerJobs ==
    { [x EXCEPT !["input"] = @ @@ [format |-> f[1]]]
        @@ [output |-> [format |-> f[2], directory |-> "out"]] @@ c :
        f \in ManagerFormats, x \in ManagerSources, c \in ManagerCombines }

ManagerFileSystems ==
    { [fs |-> {"in", "in/a.md", "in/c.md", "in/d.html"}, garbled |-> {}],
      [fs |-> {"in", "in/a.md", "in/b.md", "in/c.md"}, garbled |-> {"in/b.md"}],
      [fs |-> {"in", "in/d.html"}, garbled |-> {}] }

Init ==
    /\ \E e \in ManagerFileSystems :
          /\ fs = e.fs
          /\ content = Documents(e.fs, e.garbled)
    /\ job_data = PyNone
    /\ input_files = <<>>
    /\ output_files = <<>>
    /\ call = Constructed

Next ==
    \/ \E job \in ManagerJobs \cup {EmptyDict} : SetJobData(job)
    \/ PrepareConversion
    \/ RunConversion

Spec == Init /\ [][Next]_vars

----------------------------------------------------------------------------
(* SpecGather: a manager constructed with a job description, prepared and   *)
(* run                                                                      *)

DocNames == {"c.md", "a.md", "zz.md"}

GatherSources ==
    {[input |-> [directory |-> "in"]],
     [input |-> [directory |-> "gone"]],
     [input |-> [files |-> <<"in/c.md", "in/x.md", "in/a.md">>]],
     [input |-> [directory |-> "in", files |-> <<"in/c.md", "in/x.md">>]],
     [input |-> [directory |-> "gone", files |-> <<"in/c.md", "in/x.md">>]],
     [input |-> [directory |-> "in"],
      documents |-> [pylist |-> <<[file |-> "a.md"], [title |-> "T"]>>]],
     [input |-> [directory |-> "in"],
      documents |-> [pylist |-> <<[file |-> "zz.md"], [pystr |-> "a.md"]>>]],
     [input |-> [directory |-> "in"], documents |-> [pystr |-> "a.md"]]}
    \cup {[input |-> [directory |-> "in"],
           documents |-> [pylist |-> [i \in DOMAIN d |-> [file |-> d[i]]]]] :
            d \in SeqsUpTo(DocNames, MaxDocs)}

GatherJobs ==
    { [x EXCEPT !["input"] = @ @@ [format |-> f]]
        @@ [output |-> [format |-> g, directory |-> "out"]] @@ c :
        f \in {"MD", "html"}, g \in {"Markdown", "html"},
        x \in GatherSources, c \in {EmptyDict} }

GatherFileSystems ==
    {{}} \cup {{"in"} \cup d \cup h :
                d \in SUBSET {"in/a.md", "in/b.md", "in/c.md"},
                h \in {{}, {"in/d.html"}, {"in/.e.md"}}}

InitGather ==
    /\ fs \in GatherFileSystems
    /\ content = Documents(fs, {})
    /\ job_data \in GatherJobs
    /\ input_files = <<>>
    /\ output_files = <<>>
    /\ call = Constructed

\* JobParser(job_data)._validate_job_data() on the job description the
\* manager holds
ValidateJobData ==
    /\ call' = Called("_validate_job_data",
                      Step(_validate_job_data(job_data, fs),
                           Manager(job_data, input_files, output_files), fs, <<>>))
    /\ UNCHANGED <<fs, content, job_data, input_files, output_files>>

NextGather == PrepareConversion \/ RunConversion \/ ValidateJobData

SpecGather == InitGather /\ [][NextGather]_vars

----------------------------------------------------------------------------
(* SpecCombine: combine_directory applied to a directory and a file order *)

CombineFileSystems ==
    {{}} \cup {{"pdfs"} \cup d \cup h :
                d \in SUBSET {"pdfs/1.pdf", "pdfs/2.pdf", "pdfs/3.pdf"},
                h \in {{}, {"pdfs/notes.txt"}}}

FileOrders ==
    {PyNone} \cup {[pylist |-> o] :
                    o \in SeqsUpTo({"3.pdf", "1.pdf", "notes.txt", "9.pdf"}, MaxDocs)}

InitCombine ==
    /\ fs \in CombineFileSystems
    /\ content = <<>>
    /\ NoManager
    /\ call \in {[op |-> "file_order", input_dir |-> "pdfs", file_order |-> o] :
                    o \in FileOrders}

CombineDirectory ==
    /\ call.op = "file_order"
    /\ \E scan \in ScanOrders(fs) :
          call' = [op |-> "combine_directory", input_dir |-> call.input_dir,
                   file_order |-> call.file_order,
                   out |-> combine_directory(fs, scan, call.input_dir, "out/all.pdf", ".pdf",
                                             call.file_order)]
    /\ UNCHANGED <<fs, content, job_data, input_files, output_files>>

NextCombine == CombineDirectory

SpecCombine == InitCombine /\ [][NextCombine]_vars

----------------------------------------------------------------------------
(* SpecParse: parse_file applied to a path *)

ParseJobs ==
    { [input |-> [format |-> "md", directory |-> "in"],
       output |-> [format |-> "html", directory |-> "out"]],
      [output |-> [format |-> "html", directory |-> "out"]],
      [input |-> [format |-> "md", directory |-> "in"],
       output |-> [format |-> "rtf", directory |-> "out"]] }

\* the texts of a job file; an empty file is YAML for None
ParseContents ==
    {[kind |-> "malformed"], [kind |-> "yaml", job |-> PyNone]}
    \cup {[kind |-> k, job |-> j] : k \in {"yaml", "json"}, j \in ParseJobs}

ParsePaths == {"job.yaml", "job.yml", "job.json", "job.txt", "jobs/JOB.YAML", "job"}

\* one file of any name and content, beside the documents
ParseFileSystems ==
    { [fs |-> {"in", "in/a.md", "jobs", n},
       content |-> (n :> c) @@ Documents({"in/a.md"}, {})] :
        n \in ParsePaths, c \in ParseContents }

InitParse ==
    /\ \E e \in ParseFileSystems :
          /\ fs = e.fs
          /\ content = e.content
    /\ NoManager
    /\ call \in {[op |-> "file_path", file_path |-> p] : p \in ParsePaths \cup {"./job.yaml"}}

ParseFile ==
    /\ call.op = "file_path"
    /\ call' = [op |-> "parse_file", file_path |-> call.file_path,
                out |-> parse_file(fs, content, call.file_path)]
    /\ UNCHANGED <<fs, content, job_data, input_files, output_files>>

NextParse == ParseFile

SpecParse == InitParse /\ [][NextParse]_vars

----------------------------------------------------------------------------
(* SpecFind: find_job_file on a directory *)

\* job files and other files in the current directory and in jobs, and a
\* directory old.yaml
FindEntries ==
    { {"job.yaml"}, {"b.yml"}, {"a.json"}, {"z.json"}, {"notes.txt"}, {"JOB.YAML"},
      {"old.yaml", "old.yaml/x.txt"}, {"jobs", "jobs/j.json"}, {"jobs", "jobs/k.yml"} }

MaxEntries == 3

FindFileSystems ==
    { UNION e : e \in {x \in SUBSET FindEntries : Cardinality(x) <= MaxEntries} }

InitFind ==
    /\ fs \in FindFileSystems
    /\ content = Documents(fs, {})
    /\ NoManager
    /\ call \in {[op |-> "directory", directory |-> d] : d \in {".", "jobs"}}

\* find_job_file on a directory that is there
FindJobFile ==
    /\ call.op = "directory"
    /\ exists(fs \cup {"."}, call.directory)
    /\ \E scan \in ScanOrders(fs) :
          call' = [op |-> "find_job_file", directory |-> call.directory,
                   ret |-> find_job_file(fs, scan, call.directory)]
    /\ UNCHANGED <<fs, content, job_data, input_files, output_files>>

NextFind == FindJobFile

SpecFind == InitFind /\ [][NextFind]_vars

----------------------------------------------------------------------------
(* SpecFormats: a job description and a respelling of its formats, each     *)
(* validated and run on a new manager over the same file system             *)

\* format names by the format they spell
Spellings ==
    [markdown |-> {"markdown", "md", "MD", "Markdown"},
     html |-> {"html", "HTML"},
     pdf |-> {"pdf", "Pdf"},
     odt |-> {"odt", "ODT"},
     docx |-> {"docx", "DOCX"}]

\* every pair of the four formats, and pairs with a format that is none
FormatPairs ==
    ({"markdown", "html", "pdf", "odt"} \X {"markdown", "html", "pdf", "odt"})
        \cup { <<"docx", "html">>, <<"html", "docx">> }

FormatJob(f, g) ==
    [input |-> [format |-> f, directory |-> "in"],
     output |-> [format |-> g, directory |-> "out"]]

\* the pairs of job descriptions that spell the same pair of formats
FormatJobPairs ==
    UNION { { [job |-> FormatJob(f, g), variant |-> FormatJob(f2, g2)] :
                f \in Spellings[p[1]], f2 \in Spellings[p[1]],
                g \in Spellings[p[2]], g2 \in Spellings[p[2]] } :
            p \in FormatPairs }

FormatFileSystems ==
    { {"in", "in/a.md", "in/b.md", "in/c.html"}, {"in", "in/a.md", "in/b.md", "in/c.md"} }

\* what becomes of a job description: the validator's verdict, the path the
\* run asks the resolver for (none when the two formats are the same), and
\* the run on a new manager
Processed(job, files, scan) ==
    [valid |-> _validate_job_data(job, files),
     path |-> IF NormalizeFormat(job["input"]["format"])
                    = NormalizeFormat(job["output"]["format"])
              THEN Return(PyNone)
              ELSE _determine_conversion_path(NormalizeFormat(job["input"]["format"]),
                                              NormalizeFormat(job["output"]["format"])),
     run |-> run_conversion(Manager(job, <<>>, <<>>), files, scan)]

InitFormats ==
    /\ fs \in FormatFileSystems
    /\ content = Documents(fs, {})
    /\ NoManager
    /\ call \in {[op |-> "jobs", job |-> e.job, variant |-> e.variant] : e \in FormatJobPairs}

RunBoth ==
    /\ call.op = "jobs"
    /\ \E scan \in ScanOrders(fs) :
          call' = [op |-> "run_both", job |-> call.job, variant |-> call.variant,
                   first |-> Processed(call.job, fs, scan),
                   second |-> Processed(call.variant, fs, scan)]
    /\ UNCHANGED <<fs, content, job_data, input_files, output_files>>

NextFormats == RunBoth

SpecFormats == InitFormats /\ [][NextFormats]_vars

----------------------------------------------------------------------------
(* SpecMain: one run of the command-line tool *)

MainJobs ==
    { [input |-> [format |-> "md", directory |-> "in"],
       output |-> [format |-> "html", directory |-> "out"]],
      [input |-> [format |-> "md", directory |-> "gone"],
       output |-> [format |-> "html", directory |-> "out"]],
      [output |-> [format |-> "html", directory |-> "out"]] }

JobFileContents == {[kind |-> "malformed"]} \cup {[kind |-> "json", job |-> j] : j \in MainJobs}

JobFileNames == {"job.yaml", "job.yml", "job.json", "job.txt"}

\* the documents, which are there, and any of the job files, each with any content
MainFileSystems ==
    { [fs |-> {"in", "in/a.md"} \cup DOMAIN c,
       content |-> c @@ Documents({"in/a.md"}, {})] :
        c \in UNION {[names -> JobFileContents] :
                        names \in {n \in SUBSET JobFileNames : Cardinality(n) <= 2}} }

\* any subset of the flags, each with a value that is not empty
MainArgs ==
    { j @@ a @@ b @@ c @@ d @@ e @@ f :
        j \in Section("job_file", {"job.yaml", "job.txt"}),
        a \in Section("input_dir", {"in"}),
        b \in Section("from_format", {"md"}),
        c \in Section("output_dir", {"out"}),
        d \in Section("output_file", {"out/all.html"}),
        e \in Section("to_format", {"html", "markdown"}),
        f \in Section("combine", {PyTrue}) }

InitMain ==
    /\ \E e \in MainFileSystems :
          /\ fs = e.fs
          /\ content = e.content
    /\ NoManager
    /\ call \in {[op |-> "argv", args |-> a] : a \in MainArgs}

Main ==
    /\ call.op = "argv"
    /\ \E scan \in ScanOrders(fs) :
          LET r == main(fs, content, call.args, scan)
          IN  /\ call' = [op |-> "main", args |-> call.args, scan |-> scan, out |-> r]
              /\ fs' = r.fs
    /\ UNCHANGED <<content, job_data, input_files, output_files>>

NextMain == Main

SpecMain == InitMain /\ [][NextMain]_vars

----------------------------------------------------------------------------
(* SpecConvert: one call of convert_documents *)

\* the keyword arguments: each given or not, job_file also empty or naming
\* no file, job_data also an empty dict or a description with no input
ConvertKwargs ==
    { a @@ b :
        a \in Section("job_file", {"job.yaml", "gone.yaml", ""}),
        b \in Section("job_data", MainJobs \cup {EmptyDict}) }

InitConvert ==
    /\ \E e \in MainFileSystems :
          /\ fs = e.fs
          /\ content = e.content
    /\ NoManager
    /\ call \in {[op |-> "kwargs", kwargs |-> k] : k \in ConvertKwargs}

ConvertDocuments ==
    /\ call.op = "kwargs"
    /\ \E scan \in ScanOrders(fs) :
          LET r == convert_documents(fs, content, call.kwargs, scan)
          IN  /\ call' = [op |-> "convert_documents", kwargs |-> call.kwargs,
                          scan |-> scan, before |-> fs, out |-> r]
              /\ fs' = r.fs
    /\ UNCHANGED <<content, job_data, input_files, output_files>>

NextConvert == ConvertDocuments

SpecConvert == InitConvert /\ [][NextConvert]_vars

----------------------------------------------------------------------------
(* Claims *)

RECURSIVE Contains(_, _)
\* sub occurs in s
Contains(s, sub) ==
    IF Len(s) < Len(sub) THEN FALSE
    ELSE StartsWith(s, sub) \/ Contains(SubSeq(s, 2, Len(s)), sub)

FourFormats == {"markdown", "html", "pdf", "odt"}

\* the routes the documentation lists: three pass through html, the rest are direct
DocumentedRoute(src, dst) ==
    IF <<src, dst>> \in {<<"markdown", "pdf">>, <<"pdf", "markdown">>, <<"odt", "markdown">>}
    THEN <<src, "html", dst>>
    ELSE <<src, dst>>

PathResolved == call.op = "_determine_conversion_path"

\* C1: for every ordered pair of distinct formats of markdown, html, pdf, odt
\* the path resolver returns the documented route; for any other pair it
\* fails with a no-path error whose message names both formats.
C1_DocumentedRoutes ==
    PathResolved =>
        IF /\ call.input_format \in FourFormats
           /\ call.output_format \in FourFormats
           /\ call.input_format # call.output_format
        THEN /\ Ok(call.out)
             /\ call.out.ret = DocumentedRoute(call.input_format, call.output_format)
        ELSE /\ call.out.raised = "ValueError"
             /\ StartsWith(call.out.msg, "No conversion path available")
             /\ Contains(call.out.msg, call.input_format)
             /\ Contains(call.out.msg, call.output_format)

\* a three-step route was returned
C1_Witness_ViaHtml ==
    /\ PathResolved
    /\ call.input_format = "pdf" /\ call.output_format = "markdown"
    /\ call.out.ret = <<"pdf", "html", "markdown">>

Validated == call.op = "_validate_job_data"

HasInput(job) == ~Falsy(job) /\ "input" \in DOMAIN job
HasOutput(job) == ~Falsy(job) /\ "output" \in DOMAIN job
HasImages(job) ==
    ~Falsy(job) /\ "options" \in DOMAIN job /\ "images" \in DOMAIN job["options"]

BadImages(images) ==
    \/ "embed" \in DOMAIN images /\ images["embed"] \notin {PyTrue, PyFalse}
    \/ /\ "formats" \in DOMAIN images
       /\ \/ "pylist" \notin DOMAIN images["formats"]
          \/ \E i \in DOMAIN images["formats"].pylist :
                Lower(images["formats"].pylist[i]) \notin {"jpg", "jpeg", "png", "webp", "svg"}

\* the positions of the entries that are no object or have no 'file'
BadEntries(docs) ==
    {i \in DOMAIN docs : ~IsDict(docs[i]) \/ "file" \notin DOMAIN docs[i]}

BadDocuments(documents) ==
    \/ "pylist" \notin DOMAIN documents
    \/ \E i \in DOMAIN documents.pylist :
          ~IsDict(documents.pylist[i]) \/ "file" \notin DOMAIN documents.pylist[i]

BadCombine(combine) ==
    \/ ~IsDict(combine)
    \/ "enabled" \notin DOMAIN combine
    \/ combine["enabled"] \notin {PyTrue, PyFalse}
    \/ combine["enabled"] = PyTrue /\ "output_file" \notin DOMAIN combine

\* The checks in the order the documentation fixes, each stated on its own:
\* whether the job description fails it, and how the messages of its errors
\* begin.
OrderedChecks(job) ==
    << [fails |-> Falsy(job),
        errors |-> {"Job data is empty"}],
       [fails |-> ~Falsy(job) /\ "input" \notin DOMAIN job,
        errors |-> {"Missing required section: input"}],
       [fails |-> ~Falsy(job) /\ "output" \notin DOMAIN job,
        errors |-> {"Missing required section: output"}],
       [fails |-> HasInput(job) /\ "format" \notin DOMAIN job["input"],
        errors |-> {"Missing required field: input.format"}],
       [fails |-> HasInput(job) /\ DOMAIN job["input"] \cap {"directory", "files"} = {},
        errors |-> {"Either input.directory or input.files must be specified"}],
       [fails |-> /\ HasInput(job)
                  /\ "format" \in DOMAIN job["input"]
                  /\ Lower(job["input"]["format"]) \notin {"markdown", "md", "html", "pdf", "odt"},
        errors |-> {"Invalid input format: "}],
       [fails |-> HasOutput(job) /\ "format" \notin DOMAIN job["output"],
        errors |-> {"Missing required field: output.format"}],
       [fails |-> HasOutput(job) /\ DOMAIN job["output"] \cap {"directory", "file"} = {},
        errors |-> {"Either output.directory or output.file must be specified"}],
       [fails |-> /\ HasOutput(job)
                  /\ "format" \in DOMAIN job["output"]
                  /\ Lower(job["output"]["format"]) \notin {"markdown", "md", "html", "pdf", "odt"},
        errors |-> {"Invalid output format: "}],
       [fails |-> HasImages(job) /\ BadImages(job["options"]["images"]),
        errors |-> {"options.images.", "Invalid image format: "}],
       [fails |-> ~Falsy(job) /\ "documents" \in DOMAIN job /\ BadDocuments(job["documents"]),
        errors |-> {"documents section must be a list", "Document at index ",
                    "Missing required field: documents["}],
       [fails |-> ~Falsy(job) /\ "combine" \in DOMAIN job /\ BadCombine(job["combine"]),
        errors |-> {"combine section must be an object", "combine.enabled must be a boolean",
                    "Missing required field: combine."}] >>

\* the position of the earliest failing check, or 0
EarliestFailed(checks) ==
    IF \A i \in DOMAIN checks : ~checks[i].fails THEN 0
    ELSE CHOOSE i \in DOMAIN checks :
            checks[i].fails /\ \A k \in 1..(i - 1) : ~checks[k].fails

\* C4: the validator reports the error of the earliest failing check in the
\* fixed order: empty data, 'input' then 'output' present, the input section
\* (format present, a source present, format valid), the output section (the
\* same three), options, documents, combine; it accepts a job description
\* that fails none of them.
C4_ValidationOrder ==
    Validated =>
        LET checks == OrderedChecks(call.job)
            first == EarliestFailed(checks)
        IN  IF first = 0
            THEN Ok(call.out)
            ELSE /\ call.out.raised = "ValueError"
                 /\ \E e \in checks[first].errors : StartsWith(call.out.msg, e)

\* a job description without 'input' and with an invalid output.format is
\* rejected for the missing section
C4_Witness_MissingInputFirst ==
    /\ Validated
    /\ ~Falsy(call.job)
    /\ "input" \notin DOMAIN call.job
    /\ "output" \in DOMAIN call.job
    /\ "format" \in DOMAIN call.job["output"]
    /\ call.job["output"]["format"] = "rtf"
    /\ call.out.msg = "Missing required section: input"

FromCommandLine == Validated /\ call.source = "create_job_data_from_args"

\* C5: the job description built from any command line that validate_args
\* accepts without --job-file is accepted by the validator.
C5_SynthesizedJobAccepted == FromCommandLine => Ok(call.out)

\* the job description behind C5's refutation: every required flag and
\* --combine, no output file
C5_Witness_CombineFlag ==
    /\ FromCommandLine
    /\ "combine" \in DOMAIN call.job
    /\ call.job["combine"] = [enabled |-> PyTrue]
    /\ call.out.msg = "Missing required field: combine.output_file when combine.enabled is true"

----------------------------------------------------------------------------
(* Claims about run_conversion *)

RanConversion == call.op = "run_conversion"

\* the formats of a job description that has both
FormatsOf(job) == <<job["input"]["format"], job["output"]["format"]>>

\* lower-cased, with md read as markdown
Normalized(format) ==
    IF format \in {"md", "MD", "Md", "mD"} THEN "markdown"
    ELSE IF format \in {"markdown", "Markdown", "MARKDOWN"} THEN "markdown"
    ELSE IF format \in {"html", "HTML", "Html"} THEN "html"
    ELSE IF format \in {"pdf", "PDF", "Pdf"} THEN "pdf"
    ELSE IF format \in {"odt", "ODT", "Odt"} THEN "odt"
    ELSE format

ValidJob(job) == ~Falsy(job) /\ Ok(_validate_job_data(job, fs))

SameFormats(job) == Normalized(FormatsOf(job)[1]) = Normalized(FormatsOf(job)[2])

\* C2: for a valid job description whose formats are equal after
\* normalization, run_conversion never invokes the path resolver and, when it
\* returns, returns exactly the file set the manager has gathered, in the
\* same order, which is also its output list.
C2_SameFormatCopies ==
    (RanConversion /\ ValidJob(job_data) /\ SameFormats(job_data)) =>
        /\ "_determine_conversion_path" \notin Range(call.events)
        /\ "_convert_files" \notin Range(call.events)
        /\ Ok(call) =>
              /\ call.ret = input_files
              /\ output_files = input_files
              /\ "_copy_files" \in Range(call.events)

\* a same-format run that gathered and returned several files
C2_Witness_CopiedFiles ==
    /\ RanConversion
    /\ Ok(call)
    /\ ValidJob(job_data)
    /\ FormatsOf(job_data) = <<"MD", "markdown">>
    /\ "_gather_input_files" \in Range(call.events)
    /\ Len(call.ret) >= 2
    /\ call.ret = input_files

\* the conversion of a document that cannot be decoded raises
ConversionRaises(p) == p \in DOMAIN content /\ content[p].kind = "garbled"

\* the run reached the conversion step
ReachedConversion == RanConversion /\ "_convert_files" \in Range(call.events)

\* C3: a run in which the conversion of some input files raises returns
\* exactly the files whose conversion succeeded, in input order: a file whose
\* conversion raised is in neither the output list nor the result.
C3_FailedFilesOmitted ==
    ReachedConversion =>
        /\ output_files = SelectSeq(input_files, LAMBDA p : ~ConversionRaises(p))
        /\ Ok(call) => call.ret = output_files

\* three input files of which the second cannot be converted: all three are
\* returned
C3_Witness_FailedFileReturned ==
    /\ ReachedConversion
    /\ Ok(call)
    /\ input_files = <<"in/a.md", "in/b.md", "in/c.md">>
    /\ ConversionRaises("in/b.md")
    /\ call.ret = <<"in/a.md", "in/b.md", "in/c.md">>

----------------------------------------------------------------------------
(* Claims about the gathering of input files *)

\* prepare_conversion or run_conversion returned
Gathered == call.op \in {"prepare_conversion", "run_conversion"} /\ Ok(call)

FromDirectory(job) == "directory" \in DOMAIN job["input"]

\* documents[i].file resolved against the input directory, in declared order
DeclaredPaths(job) ==
    [i \in DOMAIN job["documents"].pylist |->
        job["input"]["directory"] \o "/" \o job["documents"].pylist[i]["file"]]

\* C6: with input.directory and a documents list of objects that each have
\* a 'file', the gathered file set is
\* the declared documents resolved against the directory, restricted to
\* those that exist, in declared order, and nothing else.
C6_DocumentsOrder ==
    (/\ Gathered
     /\ FromDirectory(job_data)
     /\ "documents" \in DOMAIN job_data
     /\ IsList(job_data["documents"])
     /\ BadEntries(job_data["documents"].pylist) = {}) =>
        input_files = SelectSeq(DeclaredPaths(job_data), LAMBDA p : p \in fs)

\* a.md, b.md and c.md with documents [c.md, a.md] gather [c.md, a.md]
C6_Witness_DeclaredOrder ==
    /\ Gathered
    /\ {"in/a.md", "in/b.md", "in/c.md"} \subseteq fs
    /\ "documents" \in DOMAIN job_data
    /\ job_data["documents"] = [pylist |-> <<[file |-> "c.md"], [file |-> "a.md"]>>]
    /\ input_files = <<"in/c.md", "in/a.md">>

\* a missing declared document is skipped and nothing replaces it
C6_Witness_MissingSkipped ==
    /\ Gathered
    /\ {"in/a.md", "in/b.md"} \subseteq fs
    /\ "documents" \in DOMAIN job_data
    /\ job_data["documents"] = [pylist |-> <<[file |-> "zz.md"], [file |-> "a.md"]>>]
    /\ input_files = <<"in/a.md">>

\* the extension of a format
ExtensionOf(format) ==
    CASE Normalized(format) = "markdown" -> ".md"
      [] Normalized(format) = "html" -> ".html"
      [] Normalized(format) = "pdf" -> ".pdf"
      [] Normalized(format) = "odt" -> ".odt"

\* the files directly in directory dir whose name ends with ext
FilesWithExtension(dir, ext) ==
    {p \in fs : \E name \in {SubSeq(p, Len(dir) + 2, Len(p))} :
        /\ Len(p) > Len(dir) + 1 + Len(ext)
        /\ p = dir \o "/" \o name
        /\ ~Contains(name, "/")
        /\ EndsWith(name, ext)}

IsSorted(s) == \A i, j \in DOMAIN s : i < j => ~StrLess(s[j], s[i])

\* C7: with input.directory and no documents, the gathered file set is
\* exactly the files directly in the directory that have the input format's
\* extension, sorted alphabetically.
C7_DirectorySorted ==
    (Gathered /\ FromDirectory(job_data) /\ "documents" \notin DOMAIN job_data) =>
        /\ Range(input_files) =
              FilesWithExtension(job_data["input"]["directory"],
                                 ExtensionOf(job_data["input"]["format"]))
        /\ IsSorted(input_files)

\* a.md, b.md and c.md gathered in the order the directory was enumerated
C7_Witness_Unsorted ==
    /\ Gathered
    /\ FromDirectory(job_data)
    /\ "documents" \notin DOMAIN job_data
    /\ input_files = <<"in/c.md", "in/a.md", "in/b.md">>

----------------------------------------------------------------------------
(* Claims about combine_directory *)

CombinedDirectory == call.op = "combine_directory" /\ call.out.called

\* the .pdf files directly in the directory
MatchingPdfs == FilesWithExtension(call.input_dir, ".pdf")

NoDuplicates(s) == \A i, j \in DOMAIN s : s[i] = s[j] => i = j

\* the entries of order that exist in the directory, as paths, in order
ExistingOrdered(order) ==
    SelectSeq([i \in DOMAIN order |-> call.input_dir \o "/" \o order[i]],
              LAMBDA p : p \in fs)

HasFileOrder == ~IsNone(call.file_order) /\ call.file_order.pylist # <<>>

\* C8: with a file_order, combine_directory passes to combine_files first
\* the file_order entries that exist in the directory, in file_order order,
\* and then every remaining matching file not named in file_order, each
\* once; without a file_order it passes the matching files sorted by name.
C8_CombineOrdering ==
    CombinedDirectory =>
        IF HasFileOrder
        THEN LET named == ExistingOrdered(call.file_order.pylist)
                 passed == call.out.passed
                 rest == SubSeq(passed, Len(named) + 1, Len(passed))
             IN  /\ Len(passed) >= Len(named)
                 /\ SubSeq(passed, 1, Len(named)) = named
                 /\ Range(rest) = MatchingPdfs \ Range(named)
                 /\ NoDuplicates(rest)
        ELSE /\ Range(call.out.passed) = MatchingPdfs
             /\ NoDuplicates(call.out.passed)
             /\ IsSorted(call.out.passed)

\* 1.pdf, 2.pdf and 3.pdf with file_order [3.pdf, 1.pdf] pass [3.pdf, 1.pdf, 2.pdf]
C8_Witness_OrderOverride ==
    /\ CombinedDirectory
    /\ MatchingPdfs = {"pdfs/1.pdf", "pdfs/2.pdf", "pdfs/3.pdf"}
    /\ call.file_order = [pylist |-> <<"3.pdf", "1.pdf">>]
    /\ call.out.passed = <<"pdfs/3.pdf", "pdfs/1.pdf", "pdfs/2.pdf">>

\* without a file_order the three files are passed sorted
C8_Witness_Sorted ==
    /\ CombinedDirectory
    /\ IsNone(call.file_order)
    /\ call.out.passed = <<"pdfs/1.pdf", "pdfs/2.pdf", "pdfs/3.pdf">>

----------------------------------------------------------------------------
(* Claims about main *)

MainDone == call.op = "main"

HasFlag(flag) == flag \in DOMAIN call.args

\* an input, an output and both formats are present
FlagsSuffice ==
    /\ HasFlag("input_dir") \/ HasFlag("input_file")
    /\ HasFlag("output_dir") \/ HasFlag("output_file")
    /\ HasFlag("from_format") /\ HasFlag("to_format")

\* the job files of the current directory
JobFilesHere ==
    {p \in fs : /\ ~Contains(p, "/")
                /\ EndsWith(p, ".yaml") \/ EndsWith(p, ".yml") \/ EndsWith(p, ".json")}

\* C9: main takes exactly one branch, by strict precedence: --job-file, whose
\* file alone is handed to convert_documents; else the flags, when an input,
\* an output and both formats are present; else a job file found in the
\* current directory; else a usage error without any conversion.
\* convert_documents is invoked at most once.
C9_Precedence ==
    MainDone =>
        /\ Len(call.out.conversions) <= 1
        /\ IF HasFlag("job_file")
           THEN /\ call.out.branch = "job_file"
                /\ call.out.conversions = <<[job_file |-> call.args["job_file"]]>>
           ELSE IF FlagsSuffice
           THEN /\ call.out.branch = "flags"
                /\ Len(call.out.conversions) = 1
                /\ DOMAIN call.out.conversions[1] = {"job_data"}
           ELSE IF JobFilesHere # {}
           THEN /\ call.out.branch = "auto"
                /\ \E p \in JobFilesHere :
                      call.out.conversions = <<[job_file |-> "./" \o p]>>
           ELSE /\ call.out.branch = "usage"
                /\ call.out.conversions = <<>>
                /\ call.out.code = 1

\* --job-file given together with flags that would suffice on their own
C9_Witness_JobFileWins ==
    /\ MainDone
    /\ HasFlag("job_file")
    /\ FlagsSuffice
    /\ call.out.branch = "job_file"
    /\ call.out.code = 0

\* insufficient flags and a job file in the current directory
C9_Witness_AutoDetected ==
    /\ MainDone
    /\ ~HasFlag("job_file")
    /\ HasFlag("input_dir") /\ ~FlagsSuffice
    /\ call.out.branch = "auto"

\* C10: main returns 0 exactly when a conversion ran to completion without
\* raising and 1 otherwise; on every exit with code 1 the error text is
\* printed to standard error.
C10_ExitCodes ==
    MainDone =>
        /\ call.out.code \in {0, 1}
        /\ call.out.code = 0 <=> (call.out.conversions # <<>> /\ Ok(call.out.run))
        /\ call.out.code = 1 => StartsWith(call.out.stderr_error, "Error: ")

\* the usage error: exit code 1 with the error text on standard output
C10_Witness_UsageOnStdout ==
    /\ MainDone
    /\ call.out.branch = "usage"
    /\ call.out.code = 1
    /\ call.out.stderr_error = ""
    /\ StartsWith(call.out.stdout_error, "Error: No job file found")

----------------------------------------------------------------------------
(* Claims about the steps of run_conversion *)

\* how often step e was taken
Count(events, e) == Cardinality({i \in DOMAIN events : events[i] = e})

CombineEnabled(job) ==
    /\ "combine" \in DOMAIN job
    /\ "enabled" \in DOMAIN job["combine"]
    /\ job["combine"]["enabled"] = PyTrue

\* C11: a run_conversion that completes on a job description with
\* combine.enabled true invokes the combiner step exactly once, as the last
\* step, after the per-file conversion or the copy, and combine.output_file
\* is produced; with combine absent or disabled the combiner step is never
\* invoked.
C11_CombinedOnce ==
    (RanConversion /\ Ok(call)) =>
        IF CombineEnabled(job_data)
        THEN /\ Count(call.events, "_combine_files") = 1
             /\ call.events[Len(call.events)] = "_combine_files"
             /\ Count(call.events, "_convert_files") + Count(call.events, "_copy_files") = 1
             /\ job_data["combine"]["output_file"] \in fs
        ELSE Count(call.events, "_combine_files") = 0

\* a same-format run with combine enabled completes without the combiner step
C11_Witness_CopyNotCombined ==
    /\ RanConversion
    /\ Ok(call)
    /\ CombineEnabled(job_data)
    /\ SameFormats(job_data)
    /\ Len(call.ret) >= 2
    /\ "_copy_files" \in Range(call.events)
    /\ "_combine_files" \notin Range(call.events)

\* a converting run with combine enabled takes the combiner step once, last,
\* and leaves no combined file
C11_Witness_CombinedLast ==
    /\ RanConversion
    /\ Ok(call)
    /\ CombineEnabled(job_data)
    /\ call.events = <<"_gather_input_files", "_prepare_output_directories",
                       "_determine_conversion_path", "_convert_files", "_combine_files">>
    /\ job_data["combine"]["output_file"] \notin fs

----------------------------------------------------------------------------
(* Claims about the job descriptions the validator accepts *)

Accepted == Validated /\ Ok(call.out)

\* exactly one of the keys is in the section
ExactlyOne(section, keys) == Cardinality(DOMAIN section \cap keys) = 1

\* C12: every job description the validator accepts has exactly one of
\* directory and files in its input section and exactly one of directory and
\* file in its output section.
C12_ExactlyOneSource ==
    Accepted =>
        /\ ExactlyOne(call.job["input"], {"directory", "files"})
        /\ ExactlyOne(call.job["output"], {"directory", "file"})

\* a job description with both input.directory and input.files is accepted
C12_Witness_BothAccepted ==
    /\ Accepted
    /\ {"directory", "files"} \subseteq DOMAIN call.job["input"]
    /\ ExactlyOne(call.job["output"], {"directory", "file"})

\* what the documentation requires of a combine section
CombineWellFormed(combine) ==
    /\ IsDict(combine)
    /\ "enabled" \in DOMAIN combine
    /\ combine["enabled"] \in {PyTrue, PyFalse}
    /\ combine["enabled"] = PyTrue => "output_file" \in DOMAIN combine

HasCombine == Validated /\ ~Falsy(call.job) /\ "combine" \in DOMAIN call.job

\* C13: a combine section must be an object with a boolean enabled and, only
\* when enabled is true, an output_file: a job description with any other
\* combine section is rejected, and one whose combine section meets this is
\* never rejected on account of it.
C13_CombineRequirement ==
    HasCombine =>
        /\ ~CombineWellFormed(call.job["combine"]) => call.out.raised = "ValueError"
        /\ CombineWellFormed(call.job["combine"]) => ~Contains(call.out.msg, "combine")

\* enabled false and no output_file: accepted
C13_Witness_DisabledAccepted ==
    /\ HasCombine
    /\ call.job["combine"] = [enabled |-> PyFalse]
    /\ Ok(call.out)

\* enabled true and no output_file: rejected for it
C13_Witness_EnabledRejected ==
    /\ HasCombine
    /\ call.job["combine"] = [enabled |-> PyTrue]
    /\ Contains(call.out.msg, "combine.output_file")

HasDocuments == Validated /\ ~Falsy(call.job) /\ "documents" \in DOMAIN call.job

\* C14: every job description the validator accepts that has a documents
\* section has a file value that is not empty in every entry.
C14_DocumentFilesNamed ==
    (HasDocuments /\ Ok(call.out)) =>
        /\ IsList(call.job["documents"])
        /\ \A i \in DOMAIN call.job["documents"].pylist :
              LET doc == call.job["documents"].pylist[i]
              IN  IsDict(doc) /\ "file" \in DOMAIN doc /\ doc["file"] # ""

\* a documents entry whose file is the empty string is accepted
C14_Witness_EmptyFileAccepted ==
    /\ HasDocuments
    /\ Ok(call.out)
    /\ call.job["documents"] = [pylist |-> <<[file |-> "c.md", title |-> "C"], [file |-> ""]>>]

----------------------------------------------------------------------------
(* Claims about parse_file *)

Parsed == call.op = "parse_file"

\* the decoder the extension of path p asks for, or "" for any other extension
DecoderFor(p) ==
    IF EndsWith(Lower(p), ".yaml") \/ EndsWith(Lower(p), ".yml") THEN "yaml.safe_load"
    ELSE IF EndsWith(Lower(p), ".json") THEN "json.load"
    ELSE ""

\* the text at path p
TextAt(p) == content[IF StartsWith(p, "./") THEN SubSeq(p, 3, Len(p)) ELSE p]

PathExists(p) == (IF StartsWith(p, "./") THEN SubSeq(p, 3, Len(p)) ELSE p) \in fs

\* C15: parse_file fails with file-not-found for a path that does not exist
\* and with an unsupported-format error for an extension other than .yaml,
\* .yml and .json; otherwise it applies the decoder the extension names,
\* YAML or JSON, and fails with a parse error carrying the decoder's message
\* on content the decoder rejects; it returns the decoded job data, and only
\* if that data passed _validate_job_data.
C15_ParseFile ==
    Parsed =>
        LET p == call.file_path
            out == call.out
        IN  IF ~PathExists(p)
            THEN /\ out.raised = "FileNotFoundError"
                 /\ out.events = <<>>
            ELSE IF DecoderFor(p) = ""
            THEN /\ out.raised = "ValueError"
                 /\ StartsWith(out.msg, "Unsupported job file format")
                 /\ out.events = <<>>
            ELSE /\ out.events # <<>> /\ out.events[1] = DecoderFor(p)
                 /\ IF \/ TextAt(p).kind = "malformed"
                       \/ TextAt(p).kind = "yaml" /\ DecoderFor(p) = "json.load"
                    THEN /\ out.raised = "ValueError"
                         /\ out.msg = (IF DecoderFor(p) = "json.load"
                                       THEN "Invalid JSON format: "
                                       ELSE "Invalid YAML format: ") \o "decoder message"
                    ELSE /\ "_validate_job_data" \in Range(out.events)
                         /\ Ok(out) <=> Ok(_validate_job_data(TextAt(p).job, fs))
                         /\ Ok(out) => out.ret = TextAt(p).job
                         /\ ~Ok(out) => out.raised = "ValueError"

\* a YAML text in a file named .json is given to the JSON decoder and rejected
C15_Witness_DecoderByExtension ==
    /\ Parsed
    /\ call.file_path = "job.json"
    /\ PathExists("job.json")
    /\ TextAt("job.json").kind = "yaml"
    /\ call.out.msg = "Invalid JSON format: decoder message"

\* a well-formed job description that the validator rejects is not returned
C15_Witness_InvalidNotReturned ==
    /\ Parsed
    /\ call.file_path = "jobs/JOB.YAML"
    /\ PathExists("jobs/JOB.YAML")
    /\ call.out.events = <<"yaml.safe_load", "_validate_job_data">>
    /\ call.out.msg = "Missing required section: input"

----------------------------------------------------------------------------
(* Claims about format names *)

RanBoth == call.op = "run_both"

\* the two job descriptions differ at most in the spelling of their formats
SameUpToSpelling(job, variant) ==
    /\ Normalized(job["input"]["format"]) = Normalized(variant["input"]["format"])
    /\ Normalized(job["output"]["format"]) = Normalized(variant["output"]["format"])
    /\ [job EXCEPT !["input"]["format"] = "", !["output"]["format"] = ""]
         = [variant EXCEPT !["input"]["format"] = "", !["output"]["format"] = ""]

\* C16: the validator accepts a format exactly when its lower-cased form is
\* one of markdown, md, html, pdf, odt, and two job descriptions that differ
\* only in the letter case of a format or in md for markdown get the same
\* verdict, the same gathered files, the same conversion path and the same
\* result.
C16_FormatSpelling ==
    (RanBoth /\ SameUpToSpelling(call.job, call.variant)) =>
        /\ Ok(call.first.valid) <=>
              /\ Normalized(call.job["input"]["format"]) \in FourFormats
              /\ Normalized(call.job["output"]["format"]) \in FourFormats
        /\ Ok(call.first.valid) <=> Ok(call.second.valid)
        /\ call.first.path.raised = call.second.path.raised
        /\ call.first.path.ret = call.second.path.ret
        /\ call.first.run.m.input_files = call.second.run.m.input_files
        /\ call.first.run.m.output_files = call.second.run.m.output_files
        /\ call.first.run.events = call.second.run.events
        /\ call.first.run.raised = call.second.run.raised
        /\ call.first.run.ret = call.second.run.ret
        /\ call.first.run.fs = call.second.run.fs

\* MD to Html and markdown to html: the same two files, path and result
C16_Witness_MdAsMarkdown ==
    /\ RanBoth
    /\ call.job = FormatJob("MD", "HTML")
    /\ call.variant = FormatJob("markdown", "html")
    /\ Ok(call.first.valid)
    /\ call.first.path.ret = <<"markdown", "html">>
    /\ Len(call.first.run.ret) = 2
    /\ call.second.run.ret = call.first.run.ret

----------------------------------------------------------------------------
(* Claims about listed input files *)

Member(s, e) == \E i \in DOMAIN s : s[i] = e

HasGathered == Member(call.events, "_gather_input_files")

ListsFiles(job) == "files" \in DOMAIN job["input"]

ExistingListed(job) == SelectSeq(job["input"]["files"], LAMBDA p : p \in fs)

MissingListed(job) == SelectSeq(job["input"]["files"], LAMBDA p : p \notin fs)

\* C17: when the job lists input.files, the gathered files are the listed
\* files that exist, in the listed order, each missing one is reported by a
\* warning, and the gathering does not fail.
C17_ListedFilesGathered ==
    (HasGathered /\ ListsFiles(job_data)) =>
        /\ input_files = ExistingListed(job_data)
        /\ \A i \in DOMAIN MissingListed(job_data) :
              Member(call.warnings,
                       "Warning: Input file not found: " \o MissingListed(job_data)[i])
        /\ ~(call.raised = "ValueError"
             /\ StartsWith(call.msg, "Input directory does not exist: "))

\* the same property for the jobs that name no input directory
C17_ListedFilesOnly ==
    (HasGathered /\ ListsFiles(job_data) /\ ~FromDirectory(job_data)) =>
        /\ input_files = ExistingListed(job_data)
        /\ \A i \in DOMAIN MissingListed(job_data) :
              Member(call.warnings,
                       "Warning: Input file not found: " \o MissingListed(job_data)[i])
        /\ Ok(call) \/ StartsWith(call.msg, "No conversion path available")

\* a job with a directory and a list: the directory's files were gathered
C17_Witness_DirectoryWins ==
    /\ HasGathered
    /\ Ok(call)
    /\ ListsFiles(job_data)
    /\ FromDirectory(job_data)
    /\ Len(input_files) = 3
    /\ ExistingListed(job_data) = <<"in/c.md">>

\* a job with a list only: the missing file was dropped, the order kept
C17_Witness_ListedOrder ==
    /\ HasGathered
    /\ Ok(call)
    /\ ~FromDirectory(job_data)
    /\ input_files = <<"in/c.md", "in/a.md">>

----------------------------------------------------------------------------
(* Claims about a missing input directory *)

PreparedOrRun(c) == c.op \in {"prepare_conversion", "run_conversion"}

\* the job description names an input directory that is not on the disk
DirectoryMissing(job, files) ==
    /\ job # PyNone
    /\ "input" \in DOMAIN job
    /\ "directory" \in DOMAIN job["input"]
    /\ ~exists(files, job["input"]["directory"])

DirectoryNotFound(c, job) ==
    /\ c.raised = "ValueError"
    /\ c.msg = "Input directory does not exist: " \o job["input"]["directory"]
    /\ c.events = <<"_gather_input_files">>
    /\ c.ret = PyNone

\* C18: a call of prepare_conversion or run_conversion for a job whose
\* input.directory does not exist fails with the directory-not-found error
\* after the gathering step alone: nothing is converted, copied or combined
\* and nothing is returned.
C18_MissingDirectoryAborts ==
    (PreparedOrRun(call) /\ DirectoryMissing(job_data, fs)) =>
        DirectoryNotFound(call, job_data)

\* every call that does gather for such a job fails so, and leaves
\* input_files, output_files and the disk as they were
C18_GatheringAborts ==
    [][ (/\ PreparedOrRun(call')
         /\ DirectoryMissing(job_data, fs)
         /\ Member(call'.events, "_gather_input_files")) =>
            /\ DirectoryNotFound(call', job_data)
            /\ input_files' = input_files
            /\ output_files' = output_files
            /\ fs' = fs ]_vars

\* run_conversion for a job whose directory is missing, on a manager that
\* still holds the files of an earlier job: they were converted and returned
C18_Witness_StaleFilesConverted ==
    /\ call.op = "run_conversion"
    /\ DirectoryMissing(job_data, fs)
    /\ Ok(call)
    /\ ~Member(call.events, "_gather_input_files")
    /\ Member(call.events, "_convert_files")
    /\ call.ret # <<>>

\* the call failed in the gathering step
C18_Witness_DirectoryNotFound ==
    /\ call.op = "run_conversion"
    /\ DirectoryMissing(job_data, fs)
    /\ DirectoryNotFound(call, job_data)
    /\ input_files = <<>>

----------------------------------------------------------------------------
(* Claims about the returned list *)

\* C19: a run_conversion that completes returns the per-file output list,
\* one entry per gathered file in the gathered order, with combine enabled
\* as without it: the list is the manager's output_files, the combiner step
\* has changed no entry of it, and combine.output_file is not in it.
C19_PerFileListReturned ==
    (RanConversion /\ Ok(call)) =>
        /\ call.ret = output_files
        /\ call.ret = input_files
        /\ ("combine" \in DOMAIN job_data /\ "output_file" \in DOMAIN job_data["combine"]) =>
              job_data["combine"]["output_file"] \notin Range(call.ret)

\* the combiner step ran and the three converted files were returned
C19_Witness_CombinedRun ==
    /\ RanConversion
    /\ Ok(call)
    /\ CombineEnabled(job_data)
    /\ call.events[Len(call.events)] = "_combine_files"
    /\ Len(call.ret) = 3
    /\ call.ret = input_files

----------------------------------------------------------------------------
(* Claims about the phases of a run *)

\* the place of a step in the order Prepared, Converting, Combined
PhaseRank ==
    [e \in {"_gather_input_files", "_prepare_output_directories",
            "_determine_conversion_path", "_convert_files", "_copy_files",
            "_combine_files"} |->
        CASE e = "_gather_input_files" -> 1
          [] e = "_prepare_output_directories" -> 2
          [] e = "_determine_conversion_path" -> 3
          [] e \in {"_convert_files", "_copy_files"} -> 4
          [] e = "_combine_files" -> 5]

\* each step after the steps of the earlier phases, and no step twice
InPhaseOrder(events) ==
    /\ Range(events) \subseteq DOMAIN PhaseRank
    /\ \A i, j \in DOMAIN events : i < j => PhaseRank[events[i]] < PhaseRank[events[j]]

\* no job description is held
Unconfigured(job) == job = PyNone \/ job = EmptyDict

\* a job description has been set and nothing has been called since
JustLoaded == call.op = "set_job_data" /\ ~Unconfigured(job_data)

Converts(events) ==
    Range(events) \cap {"_determine_conversion_path", "_convert_files", "_copy_files"} # {}

\* C20: the steps of a call occur in the order gathering, output-directory
\* creation, path resolution, conversion (or copy), combination, none of
\* them twice; the run of a job description that has just been loaded
\* gathers and creates the output directory before it resolves a path or
\* converts; and prepare_conversion or run_conversion without job data
\* fails with an error and changes nothing.
C20_PhaseOrder ==
    [][ PreparedOrRun(call') =>
          /\ InPhaseOrder(call'.events)
          /\ (JustLoaded /\ Converts(call'.events)) =>
                /\ Len(call'.events) >= 2
                /\ call'.events[1] = "_gather_input_files"
                /\ call'.events[2] = "_prepare_output_directories"
          /\ Unconfigured(job_data) =>
                /\ call'.raised = "ValueError"
                /\ call'.events = <<>>
                /\ job_data' = job_data
                /\ input_files' = input_files
                /\ output_files' = output_files
                /\ fs' = fs ]_vars

\* the same without the requirement on the run of a newly loaded job
C20_OrderWithinCall ==
    [][ PreparedOrRun(call') =>
          /\ InPhaseOrder(call'.events)
          /\ Unconfigured(job_data) =>
                /\ call'.raised = "ValueError"
                /\ call'.events = <<>>
                /\ job_data' = job_data
                /\ input_files' = input_files
                /\ output_files' = output_files
                /\ fs' = fs ]_vars

\* a run that resolved the path and converted without gathering: the files
\* it holds are not among those the job description lists
C20_Witness_ConvertedUnprepared ==
    /\ RanConversion
    /\ Ok(call)
    /\ call.events = <<"_determine_conversion_path", "_convert_files">>
    /\ ListsFiles(job_data)
    /\ input_files # <<>>
    /\ Range(input_files) \cap Range(job_data["input"]["files"]) = {}

\* a run through all five steps
C20_Witness_AllPhases ==
    /\ RanConversion
    /\ Ok(call)
    /\ call.events = <<"_gather_input_files", "_prepare_output_directories",
                       "_determine_conversion_path", "_convert_files", "_combine_files">>

----------------------------------------------------------------------------
(* Claims about the job description as a read-only value *)

\* C21: prepare_conversion and run_conversion leave job_data exactly as it
\* was before the call, whether the call completes or fails.
C21_JobDataUnchanged ==
    [][ PreparedOrRun(call') => job_data' = job_data ]_vars

\* a run that converted and combined, for a job written with md and PDF
C21_Witness_ConvertedJobKept ==
    /\ RanConversion
    /\ Ok(call)
    /\ Member(call.events, "_convert_files")
    /\ Member(call.events, "_combine_files")
    /\ job_data # PyNone
    /\ FormatsOf(job_data) = <<"md", "PDF">>

\* a run that failed in path resolution
C21_Witness_FailedJobKept ==
    /\ RanConversion
    /\ ~Ok(call)
    /\ Member(call.events, "_determine_conversion_path")
    /\ job_data # PyNone
    /\ FormatsOf(job_data) = <<"html", "docx">>

----------------------------------------------------------------------------
(* Claims about the documents section *)

ValidatedHeld == call.op = "_validate_job_data"

HasDocumentsHeld == "documents" \in DOMAIN job_data /\ FromDirectory(job_data)

Least(S) == CHOOSE i \in S : \A k \in S : i <= k

\* the warnings for the declared documents that are not on the disk, in order
MissingWarnings(job) ==
    LET missing == SelectSeq(DeclaredPaths(job), LAMBDA p : p \notin fs)
    IN  [i \in DOMAIN missing |-> "Warning: Document file not found: " \o missing[i]]

\* C22: the validator accepts a documents section exactly when it is a list
\* of objects that each have a 'file' field, and otherwise fails with an
\* error that names the first offending index; a declared file that is not
\* under input.directory only produces a warning: validation succeeds with
\* one warning per missing file, and gathering skips the entry with a
\* warning and keeps the others.
C22_DocumentsSection ==
    HasDocumentsHeld =>
        LET documents == job_data["documents"]
        IN  /\ (ValidatedHeld /\ ~IsList(documents)) =>
                  /\ call.raised = "ValueError"
                  /\ call.msg = "documents section must be a list"
            /\ (ValidatedHeld /\ IsList(documents) /\ BadEntries(documents.pylist) # {}) =>
                  /\ call.raised = "ValueError"
                  /\ LET i == Least(BadEntries(documents.pylist))
                     IN  call.msg \in
                           {"Document at index " \o ToString(i - 1) \o " must be an object",
                            "Missing required field: documents[" \o ToString(i - 1) \o "].file"}
            /\ (ValidatedHeld /\ IsList(documents) /\ BadEntries(documents.pylist) = {}) =>
                  /\ Ok(call)
                  /\ call.warnings = MissingWarnings(job_data)
            /\ (HasGathered /\ exists(fs, job_data["input"]["directory"])
                  /\ IsList(documents) /\ BadEntries(documents.pylist) = {}) =>
                  /\ Ok(call)
                  /\ input_files = SelectSeq(DeclaredPaths(job_data), LAMBDA p : p \in fs)
                  /\ \A i \in DOMAIN MissingWarnings(job_data) :
                        Member(call.warnings, MissingWarnings(job_data)[i])

\* validation succeeded with a warning for the missing zz.md
C22_Witness_ValidatedWithWarning ==
    /\ ValidatedHeld
    /\ HasDocumentsHeld
    /\ Ok(call)
    /\ job_data["documents"] = [pylist |-> <<[file |-> "zz.md"], [file |-> "a.md"]>>]
    /\ "in/a.md" \in fs
    /\ call.warnings = <<"Warning: Document file not found: in/zz.md">>

\* validation failed naming index 1
C22_Witness_IndexNamed ==
    /\ ValidatedHeld
    /\ HasDocumentsHeld
    /\ call.msg = "Missing required field: documents[1].file"

\* gathering skipped zz.md with a warning and kept a.md
C22_Witness_GatheredWithWarning ==
    /\ HasGathered
    /\ HasDocumentsHeld
    /\ Ok(call)
    /\ job_data["documents"] = [pylist |-> <<[file |-> "zz.md"], [file |-> "a.md"]>>]
    /\ input_files = <<"in/a.md">>
    /\ Member(call.warnings, "Warning: Document file not found: in/zz.md")

----------------------------------------------------------------------------
(* Claims about find_job_file *)

Found == call.op = "find_job_file"

IsDirectory(p) == \E q \in fs : StartsWith(q, p \o "/")

\* the regular files directly in directory dir whose name ends with ext
JobFilesIn(dir, ext) ==
    {p \in fs : /\ ~IsDirectory(p)
                /\ EndsWith(p, ext)
                /\ \E name \in {basename(p)} :
                      p = (IF dir = "." THEN name ELSE dir \o "/" \o name)}

ReturnedPath == NormPath(call.ret.some)

\* C23: find_job_file returns a .yaml or .yml file of the directory whenever
\* the directory has one, a .json file of the directory only when it has no
\* .yaml and no .yml file, and None exactly when it has no file with any of
\* the three extensions.
C23_FindJobFile ==
    Found =>
        LET yaml == JobFilesIn(call.directory, ".yaml") \cup JobFilesIn(call.directory, ".yml")
            json == JobFilesIn(call.directory, ".json")
        IN  /\ yaml # {} => (~IsNone(call.ret) /\ ReturnedPath \in yaml)
            /\ (yaml = {} /\ json # {}) => (~IsNone(call.ret) /\ ReturnedPath \in json)
            /\ IsNone(call.ret) <=> (yaml = {} /\ json = {})

\* the same for the directories that have no directory named like a job file
C23_FindJobFileAmongFiles ==
    (Found /\ \A p \in fs : IsDirectory(p) => splitext1(p) = "") =>
        LET yaml == JobFilesIn(call.directory, ".yaml") \cup JobFilesIn(call.directory, ".yml")
            json == JobFilesIn(call.directory, ".json")
        IN  /\ yaml # {} => (~IsNone(call.ret) /\ ReturnedPath \in yaml)
            /\ (yaml = {} /\ json # {}) => (~IsNone(call.ret) /\ ReturnedPath \in json)
            /\ IsNone(call.ret) <=> (yaml = {} /\ json = {})

\* a directory old.yaml beside a.json: the directory was returned
C23_Witness_DirectoryReturned ==
    /\ Found
    /\ call.directory = "."
    /\ {"old.yaml", "a.json"} \subseteq fs
    /\ JobFilesIn(".", ".yaml") \cup JobFilesIn(".", ".yml") = {}
    /\ ~IsNone(call.ret)
    /\ ReturnedPath = "old.yaml"

\* b.yml beside a.json and z.json: b.yml was returned
C23_Witness_YamlBeforeJson ==
    /\ Found
    /\ call.directory = "."
    /\ {"b.yml", "a.json", "z.json"} \subseteq fs
    /\ ~IsNone(call.ret)
    /\ ReturnedPath = "b.yml"

----------------------------------------------------------------------------
(* Claims about convert_documents *)

ConvertDone == call.op = "convert_documents"

\* the keyword argument was passed and is not empty
Provided(k) ==
    /\ k \in DOMAIN call.kwargs
    /\ IF k = "job_file" THEN call.kwargs[k] # "" ELSE DOMAIN call.kwargs[k] # {}

RunSteps ==
    {"_gather_input_files", "_prepare_output_directories", "_determine_conversion_path",
     "_convert_files", "_copy_files", "_combine_files"}

\* no manager method ran after the job was looked for, and the disk is as it was
NothingRan ==
    /\ IsNone(call.out.m.job_data)
    /\ Range(call.out.events) \cap RunSteps = {}
    /\ call.out.fs = call.before

\* the outcome is that of one run_conversion on a new manager holding job,
\* after the steps before
RanOnce(job, before) ==
    LET r == run_conversion(Manager(job, <<>>, <<>>), call.before, call.scan)
    IN  /\ call.out.m.job_data = job
        /\ call.out.raised = r.raised
        /\ call.out.msg = r.msg
        /\ call.out.ret = r.ret
        /\ call.out.events = before \o r.events
        /\ call.out.fs = r.fs

\* the job files of the current directory that are read without error
Loadable == {p \in JobFilesHere : Ok(load_job_file(call.before, content, p))}

\* the outcome for the job file at path: the run of its job description when
\* strict, or when the file loads; otherwise the loader's error and no run
FromJobFile(path, before, strict) ==
    LET l == load_job_file(call.before, content, path)
    IN  IF Ok(l) THEN RanOnce(l.ret, before \o l.events)
        ELSE /\ ~strict
             /\ call.out.raised = l.raised
             /\ call.out.msg = l.msg
             /\ NothingRan

ConvertedBy(strict) ==
    IF Provided("job_file") THEN FromJobFile(call.kwargs["job_file"], <<>>, strict)
    ELSE IF Provided("job_data") THEN RanOnce(call.kwargs["job_data"], <<"set_job_data">>)
    ELSE IF JobFilesHere # {}
    THEN \E p \in JobFilesHere : FromJobFile(p, <<"find_job_file">>, strict)
    ELSE /\ call.out.raised = "ValueError"
         /\ call.out.msg = "No job file or job data provided"
         /\ NothingRan

\* C24 as stated: convert_documents uses job_file when it is provided, else
\* job_data when it is provided, else a job file found in the current
\* directory; with none of the three it raises ValueError and runs nothing,
\* and in every other case it calls run_conversion exactly once and returns
\* its result unchanged.
C24_ConvertDocuments == ConvertDone => ConvertedBy(TRUE)

\* C24 as amended: the same, except that when the job file, given or found,
\* cannot be loaded, the loader's error is raised and run_conversion is not
\* called.
C24_ConvertDocumentsLoaded == ConvertDone => ConvertedBy(FALSE)

\* job_file and job_data both given: the file's job was run, once
C24_Witness_JobFileFirst ==
    /\ ConvertDone
    /\ Provided("job_file")
    /\ Provided("job_data")
    /\ Ok(call.out)
    /\ call.out.m.job_data # call.kwargs["job_data"]
    /\ call.out.ret = <<"in/a.md">>

\* the job file given is not there: nothing was run
C24_Witness_NotLoaded ==
    /\ ConvertDone
    /\ Provided("job_file")
    /\ call.kwargs["job_file"] = "gone.yaml"
    /\ call.out.raised = "FileNotFoundError"
    /\ NothingRan

----------------------------------------------------------------------------
(* Claims about a failed path resolution *)

NoPath(c) ==
    /\ c.op = "run_conversion"
    /\ c.raised = "ValueError"
    /\ StartsWith(c.msg, "No conversion path available from ")

\* C25: a run_conversion whose path resolution fails raises the no-path
\* error with path resolution as its last step: no file is converted or
\* copied, nothing is combined, nothing is returned and output_files is
\* what it was before the call.
C25_NoPathNoWork ==
    [][ NoPath(call') =>
          /\ call'.events # <<>>
          /\ call'.events[Len(call'.events)] = "_determine_conversion_path"
          /\ Range(call'.events) \cap {"_convert_files", "_copy_files", "_combine_files"} = {}
          /\ call'.ret = PyNone
          /\ output_files' = output_files ]_vars

\* html to docx failed after the files were gathered; the output files of
\* the run before are still held
C25_Witness_NoPath ==
    /\ NoPath(call)
    /\ FormatsOf(job_data) = <<"html", "docx">>
    /\ call.events = <<"_gather_input_files", "_prepare_output_directories",
                       "_determine_conversion_path">>
    /\ input_files # <<>>
    /\ output_files = <<>>

----------------------------------------------------------------------------
(* Claims about the order of the returned list *)

DifferentFormats(job) ==
    Normalized(job["input"]["format"]) # Normalized(job["output"]["format"])

\* C26: a run_conversion that completes for different input and output
\* formats went through the conversion step and returns the gathered files,
\* the same entries in the same order, whichever path was resolved.
C26_InputOrderReturned ==
    (RanConversion /\ Ok(call) /\ DifferentFormats(job_data)) =>
        /\ Member(call.events, "_convert_files")
        /\ Len(call.ret) = Len(input_files)
        /\ \A i \in DOMAIN input_files : call.ret[i] = input_files[i]

\* md to PDF with the documents c.md, a.md declared in that order
C26_Witness_DeclaredOrderReturned ==
    /\ RanConversion
    /\ Ok(call)
    /\ FormatsOf(job_data) = <<"md", "PDF">>
    /\ Member(call.events, "_gather_input_files")
    /\ input_files = <<"in/c.md", "in/a.md">>
    /\ call.ret = <<"in/c.md", "in/a.md">>

----------------------------------------------------------------------------
(* Claims about the files of the current job description *)

\* list is a FileSet that gathering yields for job on the disk as it is
GatheredFrom(job, list) ==
    IF ~FromDirectory(job) THEN list = ExistingListed(job)
    ELSE IF "documents" \in DOMAIN job
    THEN list = SelectSeq(DeclaredPaths(job), LAMBDA p : p \in fs)
    ELSE /\ NoDuplicates(list)
         /\ Range(list) = FilesWithExtension(job["input"]["directory"],
                                             ExtensionOf(job["input"]["format"]))

\* C27: whatever calls were made on the manager before, the list a
\* run_conversion returns is the file set gathered from the job description
\* the manager holds at that call.
C27_CurrentJobFiles ==
    (RanConversion /\ Ok(call)) => GatheredFrom(job_data, call.ret)

\* the same for the calls in which the files were gathered
C27_GatheredJobFiles ==
    (RanConversion /\ Ok(call) /\ HasGathered) => GatheredFrom(job_data, call.ret)

\* the job description names the markdown files of in, and the html file
\* gathered for the description before it was returned
C27_Witness_EarlierFilesReturned ==
    /\ RanConversion
    /\ Ok(call)
    /\ FromDirectory(job_data)
    /\ "documents" \notin DOMAIN job_data
    /\ FormatsOf(job_data) = <<"markdown", "html">>
    /\ "in/a.md" \in fs
    /\ call.ret = <<"in/d.html">>

----------------------------------------------------------------------------
(* Claims about validation before the run *)

\* the position of the first step of the run in events, or 0
FirstRunStep(events) ==
    IF Range(events) \cap RunSteps = {} THEN 0
    ELSE Least({i \in DOMAIN events : events[i] \in RunSteps})

\* C28: a job description that reaches the gathering step through
\* convert_documents, from a job file given or found or from job data passed
\* in, was handed to the validator before and accepted by it.
C28_ValidatedBeforeRun ==
    (ConvertDone /\ FirstRunStep(call.out.events) > 0) =>
        /\ \E i \in 1..(FirstRunStep(call.out.events) - 1) :
              call.out.events[i] = "_validate_job_data"
        /\ ValidJob(call.out.m.job_data)

\* the same for the job descriptions that come from a job file
C28_JobFileValidated ==
    (ConvertDone /\ FirstRunStep(call.out.events) > 0 /\ ~Provided("job_data")) =>
        /\ \E i \in 1..(FirstRunStep(call.out.events) - 1) :
              call.out.events[i] = "_validate_job_data"
        /\ ValidJob(call.out.m.job_data)

\* job data without an input section went to the gathering step, which
\* failed on the missing key
C28_Witness_UnvalidatedRun ==
    /\ ConvertDone
    /\ Provided("job_data")
    /\ "input" \notin DOMAIN call.kwargs["job_data"]
    /\ call.out.events = <<"set_job_data", "_gather_input_files">>
    /\ call.out.raised = "KeyError"

----------------------------------------------------------------------------
(* Claims about the path of a validated job *)

\* C29: for a job description the validator accepts whose normalized formats
\* differ, the resolver has a path from the input format to the output
\* format, and run_conversion does not raise the no-path error.
C29_ValidatedHasPath ==
    (RanBoth /\ Ok(call.first.valid) /\ DifferentFormats(call.job)) =>
        /\ Ok(call.first.path)
        /\ call.first.path.ret[1] = Normalized(call.job["input"]["format"])
        /\ call.first.path.ret[Len(call.first.path.ret)]
              = Normalized(call.job["output"]["format"])
        /\ ~(call.first.run.raised = "ValueError"
             /\ StartsWith(call.first.run.msg, "No conversion path available"))
        /\ Member(call.first.run.events, "_determine_conversion_path")

\* ODT to md is accepted and resolved through html
C29_Witness_OdtToMd ==
    /\ RanBoth
    /\ call.job = FormatJob("ODT", "md")
    /\ Ok(call.first.valid)
    /\ call.first.path.ret = <<"odt", "html", "markdown">>
    /\ Ok(call.first.run)

----------------------------------------------------------------------------
(* Claims about the completeness of the combined list *)

\* C30: whatever the file_order, the list combine_directory passes to
\* combine_files has every file of the directory that matches the pattern
\* exactly once, and no path twice.
C30_EachMatchingFileOnce ==
    (CombinedDirectory /\ call.out.called) =>
        /\ \A p \in MatchingPdfs : Count(call.out.passed, p) = 1
        /\ NoDuplicates(call.out.passed)

\* the same for the file orders that name no file twice
C30_EachOnceWithoutRepeats ==
    (CombinedDirectory /\ call.out.called
        /\ (HasFileOrder => NoDuplicates(call.file_order.pylist))) =>
        /\ \A p \in MatchingPdfs : Count(call.out.passed, p) = 1
        /\ NoDuplicates(call.out.passed)

\* file_order [1.pdf, 1.pdf]: 1.pdf was passed twice
C30_Witness_RepeatedName ==
    /\ CombinedDirectory
    /\ call.out.called
    /\ call.file_order = [pylist |-> <<"1.pdf", "1.pdf">>]
    /\ MatchingPdfs = {"pdfs/1.pdf", "pdfs/2.pdf"}
    /\ call.out.passed = <<"pdfs/1.pdf", "pdfs/1.pdf", "pdfs/2.pdf">>

====
